---------------------------- MODULE Spec2Model ----------------------------
(***************************************************************************)
(* A state-machine model of timestone_recorder                             *)
(* (src/tools/timestone_recorder/src/main.rs): the privacy gate, the text  *)
(* composition buffer, the clipboard poller, the single-instance lock, the *)
(* pause watcher and the shutdown path with the batched writer.            *)
(*                                                                         *)
(* Strings are sequences of one-character strings.  Option<T> is a         *)
(* sequence of length 0 (None) or 1 (Some).  Time is the monotonic clock   *)
(* now_mono_ms, counted in model ticks.  Each subsystem has its own        *)
(* specification; the variables of the other subsystems stay unchanged.    *)
(***************************************************************************)
EXTENDS Integers, Sequences, FiniteSets, TLC

VARIABLES
    \* ---- RecorderState: configuration held by the running recorder
    allowlist_processes,   \* state.allowlist_processes (normalized list)
    blocklist_processes,   \* state.blocklist_processes (normalized list)
    safe_text_only,        \* state.safe_text_only
    capture_raw_keys,      \* state.capture_raw_keys
    \* ---- privacy gate evaluation (inputs drawn, result of the last call)
    gateCall,              \* "none" | "text" | "clipboard": the function last called
    gateProc,              \* Option<process image path> of the focused window
    gateUia,               \* outcome of the accessibility queries
    gateOut,               \* the boolean the gate returned
    \* ---- clock, channel, flags
    now,                   \* now_mono_ms(state), in ticks
    chan,                  \* the bounded channel (tx, rx): records in flight
    capacity,              \* the bound the channel was created with
    paused,                \* state.paused
    \* ---- text composition
    text_snapshot_on_idle, \* state.text_snapshot_on_idle
    text,                  \* state.text_buffer.text
    last_ts_ms,            \* state.text_buffer.last_ts_ms
    foreground,            \* the foreground window (GetForegroundWindow)
    isPassword,            \* the focused field currently reports IsPassword
    uiaAvailable,          \* the accessibility service can be reached
    fieldValue,            \* the value of the focused field (ValuePattern)
    \* ---- history of the key presses, kept for the claims
    keyCount,              \* the number of key presses so far
    plainSpan,             \* all keys so far were capturable characters or
                           \* Backspaces typed within the limits of one span
    typedKeys,             \* the keys pressed so far (kept while plainSpan)
    lastKeyTime,           \* the clock at the last key press (kept while plainSpan)
    idlePolled,            \* the watcher has checked for staleness at a time when
                           \* the last key press was at least the timeout ago
    \* ---- shutdown path and writer
    shutdown,              \* the shared shutdown flag
    stopFile,              \* stop.signal exists
    wmQuit,                \* WM_QUIT is posted to the main thread
    mainPc,                \* run_recorder: "loop" | "session_end" | "session_stop" |
                           \* "join" | "exit"
    watcherPc,             \* spawn_stop_watcher: "loop" | "stop_flush" | "signal" | "done"
    writerPc,              \* run_writer: "recv" | "check" | "exiting" | "done"
    rxOpen,                \* the Receiver has not been dropped
    batch,                 \* run_writer's buffer
    stored,                \* the events table
    stopsIssued,           \* `stop` commands run so far
    interrupts,            \* interrupts delivered so far
    hookEvents,            \* records sent by the pointer hook so far
    \* ---- history of the shutdown, kept for the claims
    queued,                \* every record a try_send put into the channel
    hookLog,               \* the ts_mono_ms of the pointer records mouse_hook_proc has
                           \* put into the channel, in the order of the sends
    flushFailed,           \* a flush_events call has failed
    writerLog,             \* run_writer: the "Event flush failed" lines on stderr and
                           \* the batches it cleared after a failed flush
    stopText,              \* Some(text buffer) when the watcher saw the stop signal
    teardown,              \* how often run_recorder has sent session_stop, removed the
                           \* hooks, removed the lock
    recvStart,             \* run_writer: the clock when recv_timeout was last called
    batchSince,            \* Some(clock when the oldest record of the batch was
                           \* received), None for an empty batch
    \* ---- the lock marker and the processes started on one data directory
    lockFile,              \* Option<pid recorded in recorder.lock>
    recPc,                 \* per `start` invocation: "idle" | "check" | "passed" |
                           \* "install" | "recording" | "aborting" | "refused" |
                           \* "failed" | "exited" | "killed"
    hooks,                 \* per `start` invocation: the hooks it has installed
    oldRunning,            \* the process that wrote a lock found at start is running
    \* ---- pause
    pauseFile,             \* pause.signal exists
    last_paused,           \* spawn_pause_watcher's last_paused
    scroll_buffer,         \* state.scroll_buffer: Option<ScrollBuffer>
    pauseCommands,         \* `pause` / `resume` commands run so far
    wheelTicks,            \* wheel messages delivered so far
    tickLog,               \* the wheel messages buffer_mouse_scroll has taken: clock and delta
    snapshots,             \* snapshots taken so far
    pausedSends,           \* the types of the records producers sent while paused
    \* ---- clipboard
    clipSeq,               \* GetClipboardSequenceNumber()
    clipContent,           \* the formats the clipboard holds
    last_seq,              \* spawn_clipboard_loop's last_seq
    pending_since,         \* spawn_clipboard_loop's pending_since
    last_clipboard_hash,   \* state.last_clipboard_hash
    lastCopyAt,            \* the clock at the last change of the clipboard
    readLog,               \* the calls of read_clipboard_event: inputs and outcome
    copiedPaused,          \* the clipboard was last changed while the recorder was paused
    \* ---- the windows and state.window_tracker
    rectOf,                \* GetWindowRect of each window
    window_rect_debounce_ms, \* state.window_rect_debounce_ms, in ticks
    window_tracker,        \* state.window_tracker: last_hwnd, last_rect, pending_rect
    winEvents,             \* the window events raised and not yet dispatched
    updPc,                 \* per caller of update_window_events: the pending
                           \* rectangle it is about to store, if any
    winChanges,            \* changes of the foreground window and of rectangles so far
    \* ---- history of the window events, kept for the claims
    seen,                  \* per window: the rectangle last read by the recorder and
                           \* the clock when a read first returned it
    fgSeen,                \* the foreground window the recorder was last told of
    rectLog,               \* per window_rect_changed sent: the record and seen, fgSeen
    textWindow,            \* the window that was in front when the text buffer last
                           \* took a key
    changeFlushes,         \* per text flushed on a window change: the window the
                           \* record carries and the window the text was typed in
    \* ---- the pointer hook
    mouse_hz,              \* config.mouse_hz
    mouse_move_interval_ms, \* state.mouse_move_interval_ms, in ticks
    last_mouse_move_ms,    \* state.last_mouse_move_ms
    moveCount,             \* WM_MOUSEMOVE messages delivered so far
    \* ---- the storage file
    db,                    \* the SQLite file: schema objects, sessions rows, events rows
    dbOpens,               \* how often run_writer has opened the file
    \* ---- the keyboard
    pressed_keys,          \* state.pressed_keys
    held,                  \* the keys that are physically down
    lastKey,               \* the last keyboard message: key, direction, number
    \* ---- the signal files and the background loops
    reloadFile,            \* reload_config.signal exists
    reloadRequests,        \* how often reload_config.signal has been written
    reloadsSeen,           \* passes of the reload watcher that found the file
    config_flags,          \* config.json: whether it exists and parses, its
                           \* emit_mouse_move, _click, _scroll and safe_text_only
    capture_flags,         \* state.emit_mouse_move, _click, _scroll
    exited,                \* how many of the background loops have left their loop
    \* ---- the text buffer, thread by thread
    flushing,              \* per thread: where it is in flush_text_buffer_with_window
                           \* and the text it has taken
    hook,                  \* the hook thread in handle_text_key: position, key, now_ms
    pauseNote,             \* the pause watcher has yet to send session_pause
    typed,                 \* the key numbers of the characters pushed to the buffer
    popped                 \* the key numbers of the characters Backspace removed

gateVars == <<gateCall, gateProc, gateUia, gateOut>>
cfgVars == <<allowlist_processes, blocklist_processes, safe_text_only, capture_raw_keys>>
chanVars == <<now, chan, capacity, paused>>
textVars == <<text_snapshot_on_idle, text, last_ts_ms, foreground, isPassword, uiaAvailable,
             fieldValue>>
keyHistory == <<keyCount, plainSpan, typedKeys, lastKeyTime, idlePolled>>
lockVars == <<lockFile, recPc, hooks, oldRunning>>
clipVars == <<clipSeq, clipContent, last_seq, pending_since, last_clipboard_hash, lastCopyAt,
             readLog, copiedPaused>>
pauseVars == <<pauseFile, last_paused, scroll_buffer, pauseCommands, wheelTicks, tickLog, snapshots,
              pausedSends>>
winVars == <<rectOf, window_rect_debounce_ms, window_tracker, winEvents, updPc, winChanges,
            seen, fgSeen, rectLog, textWindow, changeFlushes>>
pointerVars == <<mouse_hz, mouse_move_interval_ms, last_mouse_move_ms, moveCount>>
dbVars == <<db, dbOpens>>
keyVars == <<pressed_keys, held, lastKey>>
watchVars == <<reloadFile, reloadRequests, reloadsSeen, config_flags, capture_flags, exited>>
raceVars == <<flushing, hook, pauseNote, typed, popped>>
stopVars == <<shutdown, stopFile, wmQuit, mainPc, watcherPc, writerPc, rxOpen, batch, stored,
             stopsIssued, interrupts, hookEvents, queued, hookLog, flushFailed, writerLog, stopText, teardown,
             recvStart, batchSince>>

None == <<>>
Some(x) == <<x>>

\* the writer has reported no failure
NoWriterLog == [stderr |-> 0, discarded |-> <<>>]

\* nothing of the teardown has run
NoTeardown == [session_stops |-> 0, unhooks |-> 0, lock_removals |-> 0]

\* the `start` invocations on one data directory
Starts == {"P1", "P2", "P3"}

\* no `start` has been invoked, no lock marker exists
LockIdle ==
    /\ lockFile = None
    /\ recPc = [p \in Starts |-> "idle"]
    /\ hooks = [p \in Starts |-> {}]
    /\ oldRunning = FALSE

\* no pause signal, nothing scrolled
PauseIdle ==
    /\ pauseFile = FALSE
    /\ last_paused = FALSE
    /\ scroll_buffer = None
    /\ pauseCommands = 0
    /\ wheelTicks = 0
    /\ tickLog = <<>>
    /\ snapshots = 0
    /\ pausedSends = {}

\* an empty clipboard
NoContent == [image |-> None, files |-> None, text |-> None]

\* nothing has been copied since the clipboard loop started
ClipIdle ==
    /\ clipSeq = 0
    /\ clipContent = NoContent
    /\ last_seq = 0
    /\ pending_since = None
    /\ last_clipboard_hash = None
    /\ lastCopyAt = 0
    /\ readLog = <<>>
    /\ copiedPaused = FALSE

\* the windows of the environment, their rectangles, HWND(0)
Windows == {"W1", "W2"}
Rects == {"r1", "r2"}
NoWindow == "none"
\* the threads that call update_window_events: the message loop
\* (win_event_proc) and spawn_window_poll_loop
Callers == {"hook", "poll"}
\* config.window_rect_debounce_ms (default 300), in ticks
RectDebounceTicks == 2

\* the window tracker of a recorder that has just started with the debounce
\* interval d; W1 is in front
WinStart(d) ==
    /\ rectOf = [w \in Windows |-> "r1"]
    /\ window_rect_debounce_ms = d
    /\ window_tracker = [last_hwnd |-> NoWindow, last_rect |-> None, pending_rect |-> None]
    /\ winEvents = <<>>
    /\ updPc = [c \in Callers |-> None]
    /\ winChanges = 0
    /\ seen = [w \in Windows |-> [rect |-> "r1", at |-> 0]]
    /\ fgSeen = "W1"
    /\ rectLog = <<>>
    /\ textWindow = NoWindow
    /\ changeFlushes = <<>>

WinIdle == WinStart(RectDebounceTicks)

\* one second (1000 ms), in ticks
TicksPerSecond == 4

\* run_recorder: mouse_move_interval_ms: (1000 / config.mouse_hz.max(1)) as i64
interval_of(hz) == TicksPerSecond \div (IF hz >= 1 THEN hz ELSE 1)

\* the pointer hook of a recorder that has just started with config.mouse_hz
PointerStart(hz) ==
    /\ mouse_hz = hz
    /\ mouse_move_interval_ms = interval_of(hz)
    /\ last_mouse_move_ms = -1
    /\ moveCount = 0

PointerIdle == PointerStart(2)

\* the variables of the later sections and their idle state
\* a storage file that does not exist yet (Connection::open creates it empty)
DbIdle ==
    /\ db = [objects |-> <<>>, sessions |-> <<>>, events |-> <<>>]
    /\ dbOpens = 0

\* no key is down
KeyIdle ==
    /\ pressed_keys = {}
    /\ held = {}
    /\ lastKey = [vk |-> "none", is_down |-> FALSE, n |-> 0]

\* RecorderConfig::default(): emit_mouse_move, emit_mouse_click,
\* emit_mouse_scroll
DefaultFlags == [move |-> FALSE, click |-> TRUE, scroll |-> FALSE]

\* the config.json that load_or_create_config writes when there is none:
\* RecorderConfig::default()
DefaultConfig == [exists |-> TRUE, valid |-> TRUE, move |-> FALSE, click |-> TRUE,
                  scroll |-> FALSE, safe_text_only |-> TRUE]

\* no reload has been asked for, every background loop is running
WatchIdle ==
    /\ reloadFile = FALSE
    /\ reloadRequests = 0
    /\ reloadsSeen = 0
    /\ config_flags = DefaultConfig
    /\ capture_flags = DefaultFlags
    /\ exited = 0

\* the threads that flush the text buffer: the main thread, which runs the
\* keyboard hook, the stop watcher and the pause watcher
RaceThreads == {"hook", "stop_watcher", "pause_watcher"}
\* the thread is not inside flush_text_buffer_with_window
NoFlush == [stage |-> "none"]
\* the hook thread is not inside handle_text_key
HookIdle == [pc |-> "idle", vk |-> "none", now_ms |-> 0]

\* no thread is inside a flush or a key
RaceIdle ==
    /\ flushing = [t \in RaceThreads |-> NoFlush]
    /\ hook = HookIdle
    /\ pauseNote = FALSE
    /\ typed = {}
    /\ popped = {}

laterVars == <<winVars, pointerVars, dbVars, keyVars, watchVars, raceVars>>
LaterIdle == WinIdle /\ PointerIdle /\ DbIdle /\ KeyIdle /\ WatchIdle /\ RaceIdle

\* the variables outside the gate, the text buffer and the shutdown path,
\* and their idle state
outsideCore == <<lockVars, pauseVars, clipVars, laterVars>>
OutsideCoreIdle == LockIdle /\ PauseIdle /\ ClipIdle /\ LaterIdle

(***************************************************************************)
(* Strings                                                                 *)
(***************************************************************************)

\* char::to_ascii_lowercase on the model's alphabet
Lower(c) ==
    CASE c = "A" -> "a"
      [] c = "B" -> "b"
      [] OTHER -> c

\* str::to_ascii_lowercase
ToAsciiLowercase(s) == [i \in 1..Len(s) |-> Lower(s[i])]

IsSeparator(c) == c = "\\" \/ c = "/"

IsWhitespace(c) == c = " "

\* str::trim: leading and trailing whitespace removed
RECURSIVE TrimStart(_)
TrimStart(s) ==
    IF s # <<>> /\ IsWhitespace(Head(s)) THEN TrimStart(Tail(s)) ELSE s

RECURSIVE TrimEnd(_)
TrimEnd(s) ==
    IF s # <<>> /\ IsWhitespace(s[Len(s)])
    THEN TrimEnd(SubSeq(s, 1, Len(s) - 1))
    ELSE s

Trim(s) == TrimEnd(TrimStart(s))

\* Path::file_name: the last component of the path, trailing separators
\* ignored; None when the path has no such component.
RECURSIVE StripTrailingSeparators(_)
StripTrailingSeparators(s) ==
    IF s # <<>> /\ IsSeparator(s[Len(s)])
    THEN StripTrailingSeparators(SubSeq(s, 1, Len(s) - 1))
    ELSE s

RECURSIVE LastComponent(_)
LastComponent(s) ==
    IF s = <<>> \/ IsSeparator(s[Len(s)])
    THEN <<>>
    ELSE Append(LastComponent(SubSeq(s, 1, Len(s) - 1)), s[Len(s)])

file_name(path) ==
    LET stripped == StripTrailingSeparators(path)
    IN  IF stripped = <<>> THEN None ELSE Some(LastComponent(stripped))

(***************************************************************************)
(* Privacy gate                                                            *)
(***************************************************************************)

\* mutant of normalize_process_name: the whole image path is compared
normalize_process_name_full_path(process_name) ==
    ToAsciiLowercase(process_name)

normalize_process_name(process_name) ==
    LET name == file_name(process_name)
    IN  ToAsciiLowercase(IF name = None THEN process_name ELSE name[1])

normalize_process_list(list) ==
    LET mapped == [i \in 1..Len(list) |-> ToAsciiLowercase(Trim(list[i]))]
    IN  SelectSeq(mapped, LAMBDA entry : entry # <<>>)

Contains(list, entry) == \E i \in 1..Len(list) : list[i] = entry

process_is_allowed(allowlist, process_name) ==
    IF allowlist = <<>> THEN TRUE
    ELSE IF process_name = None THEN FALSE
    ELSE Contains(allowlist, normalize_process_name(process_name[1]))

process_is_blocked(blocklist, process_name) ==
    IF blocklist = <<>> THEN FALSE
    ELSE IF process_name = None THEN FALSE
    ELSE Contains(blocklist, normalize_process_name(process_name[1]))

should_capture_clipboard(allowlist, blocklist, process_name) ==
    IF process_is_blocked(blocklist, process_name) THEN FALSE
    ELSE IF ~process_is_allowed(allowlist, process_name) THEN FALSE
    ELSE TRUE

\* The accessibility queries of should_capture_text, each of which may fail:
\*   uia     get_uia() returned an automation object
\*   element GetFocusedElement succeeded
\*   focus   CurrentHasKeyboardFocus: "true" | "false" | "err"
\*   pass    CurrentIsPassword:       "true" | "false" | "err"
\*   ctype   CurrentControlType:      "edit" | "document" | "other" | "err"
UiaOutcomes ==
    [uia : BOOLEAN, element : BOOLEAN,
     focus : {"true", "false", "err"},
     pass : {"true", "false", "err"},
     ctype : {"edit", "document", "other", "err"}]

\* the service is unavailable
NoUia == [uia |-> FALSE, element |-> FALSE, focus |-> "err", pass |-> "err", ctype |-> "err"]

\* the service reports a focused edit field
OkEdit == [uia |-> TRUE, element |-> TRUE, focus |-> "true", pass |-> "false", ctype |-> "edit"]

should_capture_text(allowlist, blocklist, safe, process_name, u) ==
    IF process_is_blocked(blocklist, process_name) THEN FALSE
    ELSE IF ~process_is_allowed(allowlist, process_name) THEN FALSE
    ELSE IF ~safe THEN TRUE
    ELSE IF ~u.uia THEN FALSE
    ELSE IF ~u.element THEN FALSE
    ELSE LET has_focus == (u.focus = "true")      \* .ok().unwrap_or(false)
             is_password == (u.pass = "true")     \* .ok().unwrap_or(false)
             control_type == u.ctype              \* unwrap_or(UIA_CONTROLTYPE_ID(0))
         IN  IF ~has_focus THEN FALSE
             ELSE IF is_password THEN FALSE
             ELSE IF control_type # "edit" /\ control_type # "document" THEN FALSE
             ELSE TRUE

(***************************************************************************)
(* Event channel                                                           *)
(***************************************************************************)

\* bounded::<EventRecord>(20_000)
CHANNEL_CAPACITY == 20000

\* a send that puts the record into the channel whatever the channel holds
send_unbounded(queue, event) == IF rxOpen THEN Append(queue, event) ELSE queue

\* sender.try_send(event).ok(): the record is dropped when the channel is
\* full or the receiver is gone
try_send(queue, event) ==
    IF rxOpen /\ Len(queue) < capacity THEN Append(queue, event) ELSE queue

(***************************************************************************)
(* Text composition                                                        *)
(***************************************************************************)

\* config.text_flush_ms, in ticks
TextFlushTicks == 2
\* config.max_text_len, scaled down
MaxTextLen == 4
\* the number of key presses of a behaviour
MaxKeys == 4
\* the clock stops here
MaxTime == 4

VK_BACK == "Backspace"
VK_RETURN == "Enter"
VK_TAB == "Tab"
\* keys that ToUnicodeEx translates to a character, and one it does not
CharKeys == {"a", "é"}
Keys == CharKeys \cup {VK_BACK, VK_RETURN, VK_TAB, "Left"}
\* the digit 0 (vk 0x30), the key of the marker hotkey
VK_0 == "0"
\* the keys with a character
Typeable == CharKeys \cup {VK_0}

\* translate_vk_to_text: None for a key without a character
translate_vk_to_text(vk) == IF vk \in Typeable THEN Some(<<vk>>) ELSE None

\* the UTF-8 length of a character (String::len counts bytes)
Utf8Len(c) == IF c = "é" THEN 2 ELSE 1

RECURSIVE StringLen(_)
StringLen(s) == IF s = <<>> THEN 0 ELSE Utf8Len(Head(s).ch) + StringLen(Tail(s))

\* the characters of a buffer or field value
Chars(s) == [i \in 1..Len(s) |-> s[i].ch]

\* Reference for the claims: the text a sequence of character keys and
\* Backspaces stands for, i.e. the characters in order, each Backspace
\* removing the last one then remaining.
RECURSIVE Compose(_)
Compose(keys) ==
    IF keys = <<>> THEN <<>>
    ELSE LET before == Compose(SubSeq(keys, 1, Len(keys) - 1))
             k == keys[Len(keys)]
         IN  IF k = VK_BACK
             THEN IF before = <<>> THEN <<>> ELSE SubSeq(before, 1, Len(before) - 1)
             ELSE Append(before, k)

RECURSIVE ByteLen(_)
ByteLen(chars) == IF chars = <<>> THEN 0 ELSE Utf8Len(Head(chars)) + ByteLen(Tail(chars))

\* truncate_text(text, max_len).text: at most max_len characters
truncate_text(s, max_len) == IF Len(s) <= max_len THEN s ELSE SubSeq(s, 1, max_len)

\* W1 belongs to a process the lists of the text specification permit and
\* holds the focused field, W2 belongs to a process they block.
ProcessOf(w) == IF w = "W1" THEN Some(<<"d", "\\", "a">>) ELSE Some(<<"d", "\\", "B">>)

\* What the accessibility service answers now: nothing when it is
\* unavailable, otherwise the focused field as it is.
UiaNow ==
    IF ~uiaAvailable THEN NoUia
    ELSE [uia |-> TRUE, element |-> TRUE, focus |-> "true",
          pass |-> IF isPassword THEN "true" ELSE "false", ctype |-> "edit"]

\* snapshot_text_from_uia: the value of the focused element
snapshot_text_from_uia(u, value) ==
    IF ~u.uia \/ ~u.element THEN None
    ELSE IF u.focus # "true" THEN None
    ELSE IF u.pass = "true" THEN None
    ELSE IF u.ctype # "edit" /\ u.ctype # "document" THEN None
    ELSE IF value = <<>> THEN None
    ELSE Some(value)

\* A text buffer with the records sent so far: [text, ts, out].
\* send_text_event: the text_input record
TextEvent(w, t, reason, final_text) ==
    [type |-> "text_input", text |-> t, reason |-> reason, win |-> w,
     final_text |-> IF final_text = None THEN None
                    ELSE Some(truncate_text(final_text[1], MaxTextLen))]

\* a flush that copies the buffer instead of taking it: the event is sent
\* and the text stays
flush_text_buffer_without_take(b, w, reason, u) ==
    IF b.text = <<>> THEN b
    ELSE [text |-> b.text, ts |-> now,
          out |-> try_send(b.out, TextEvent(w, b.text, reason, None))]

\* flush_text_buffer_with_window(state, window_info, reason)
flush_text_buffer_with_window(b, w, reason, u) ==
    IF b.text = <<>> THEN b
    ELSE LET final_text ==
                 IF /\ text_snapshot_on_idle
                    /\ reason \in {"idle_timeout", "timeout"}
                    /\ should_capture_text(allowlist_processes, blocklist_processes,
                                           safe_text_only, ProcessOf(w), u)
                 THEN snapshot_text_from_uia(u, fieldValue)
                 ELSE None
         IN  [text |-> <<>>, ts |-> now,
              out |-> try_send(b.out, TextEvent(w, b.text, reason, final_text))]

IsStale(b) == b.text # <<>> /\ now - b.ts >= TextFlushTicks

\* flush_text_buffer_if_stale_with_window
flush_text_buffer_if_stale_with_window(b, w, reason, u) ==
    IF IsStale(b) THEN flush_text_buffer_with_window(b, w, reason, u) ELSE b

\* mutant of handle_text_key: Backspace drops the first character
handle_text_key_pops_front(b0, w, vk, u) ==
    LET b == flush_text_buffer_if_stale_with_window(b0, w, "timeout", u)
    IN  IF vk = VK_BACK
        THEN IF b.text # <<>> THEN [b EXCEPT !.text = Tail(b.text), !.ts = now] ELSE b
        ELSE IF translate_vk_to_text(vk) = None THEN b
        ELSE [b EXCEPT !.text = b.text \o [i \in 1..1 |-> [ch |-> vk, denied |-> FALSE]],
                       !.ts = now]

\* handle_text_key(state, window_info, vk, scan_code)
handle_text_key(b0, w, vk, u) ==
    LET b == flush_text_buffer_if_stale_with_window(b0, w, "timeout", u)
    IN  IF vk = VK_BACK
        THEN IF b.text # <<>>
             THEN [b EXCEPT !.text = SubSeq(b.text, 1, Len(b.text) - 1), !.ts = now]
             ELSE b
        ELSE IF vk = VK_RETURN THEN flush_text_buffer_with_window(b, w, "enter", u)
        ELSE IF vk = VK_TAB THEN flush_text_buffer_with_window(b, w, "tab", u)
        ELSE LET translated == translate_vk_to_text(vk)
             IN  IF translated = None THEN b
                 ELSE IF translated[1] = <<>> THEN b
                 ELSE LET pushed ==
                              [b EXCEPT
                                 !.text = b.text \o
                                    [i \in 1..Len(translated[1]) |->
                                        [ch |-> translated[1][i], denied |-> FALSE]],
                                 !.ts = now]
                      IN  IF StringLen(pushed.text) >= MaxTextLen
                          THEN flush_text_buffer_with_window(pushed, w, "max_len", u)
                          ELSE pushed

\* the key_down record of keyboard_hook_proc (capture_raw_keys, mode "down")
KeyDownEvent(vk) == [type |-> "key_down", key |-> vk]

\* What the key does to the focused field itself.
FieldAfter(value, vk, denied) ==
    IF vk = VK_BACK THEN (IF value = <<>> THEN value ELSE SubSeq(value, 1, Len(value) - 1))
    ELSE IF vk \in Typeable THEN Append(value, [ch |-> vk, denied |-> denied])
    ELSE value

\* keyboard_hook_proc for the key-down of a non-modifier key with no modifier
\* held: the gate, then the text buffer, then the raw key record.
KeyboardHookProc(vk) ==
    /\ ~paused
    /\ keyCount < MaxKeys
    /\ LET u == UiaNow
           capture == should_capture_text(allowlist_processes, blocklist_processes,
                                          safe_text_only, ProcessOf(foreground), u)
           b0 == [text |-> text, ts |-> last_ts_ms, out |-> chan]
           b1 == IF ~capture
                 THEN flush_text_buffer_with_window(b0, foreground, "unsafe_target", u)
                 ELSE handle_text_key(b0, foreground, vk, u)
       IN  /\ text' = b1.text
           /\ last_ts_ms' = b1.ts
           /\ chan' = IF capture_raw_keys THEN try_send(b1.out, KeyDownEvent(vk))
                      ELSE b1.out
           /\ fieldValue' = IF foreground = "W1"
                            THEN FieldAfter(fieldValue, vk, ~capture)
                            ELSE fieldValue
           /\ keyCount' = keyCount + 1
           /\ plainSpan' = (/\ plainSpan
                            /\ capture
                            /\ vk \in CharKeys \cup {VK_BACK}
                            /\ typedKeys # <<>> => now - lastKeyTime < TextFlushTicks
                            /\ ByteLen(Compose(Append(typedKeys, vk))) < MaxTextLen)
           /\ typedKeys' = IF plainSpan' THEN Append(typedKeys, vk) ELSE <<>>
           /\ lastKeyTime' = IF plainSpan' THEN now ELSE 0
           /\ idlePolled' = FALSE
    /\ UNCHANGED <<cfgVars, gateVars, now, capacity, paused, text_snapshot_on_idle,
                   foreground, isPassword, uiaAvailable>>

\* spawn_stop_watcher, no stop signal present: flush_text_buffer_if_stale
\* with the window active_window_info reports
StopWatcherIdle ==
    /\ ~paused
    /\ LET b0 == [text |-> text, ts |-> last_ts_ms, out |-> chan]
           b1 == IF IsStale(b0)
                 THEN flush_text_buffer_with_window(b0, foreground, "idle_timeout", UiaNow)
                 ELSE b0
       IN  /\ text' = b1.text
           /\ last_ts_ms' = b1.ts
           /\ chan' = b1.out
    /\ idlePolled' = (idlePolled \/ (plainSpan /\ typedKeys # <<>>
                                       /\ now - lastKeyTime >= TextFlushTicks))
    /\ UNCHANGED <<cfgVars, gateVars, now, capacity, paused, text_snapshot_on_idle,
                   foreground, isPassword, uiaAvailable, fieldValue, keyCount, plainSpan,
                   typedKeys, lastKeyTime>>

\* The field changes between password and plain display.
TogglePassword ==
    /\ foreground = "W1"
    /\ isPassword' = ~isPassword
    /\ UNCHANGED <<cfgVars, gateVars, chanVars, text_snapshot_on_idle, text, last_ts_ms,
                   foreground, uiaAvailable, fieldValue, keyHistory>>

Tick ==
    /\ now < MaxTime
    /\ now' = now + 1
    /\ UNCHANGED <<cfgVars, gateVars, chan, capacity, paused, textVars, keyHistory>>

\* the text buffer of a recorder that has just started, with a channel of
\* the given capacity
TextIdleWith(cap) ==
    /\ now = 0
    /\ chan = <<>>
    /\ capacity = cap
    /\ paused = FALSE
    /\ text_snapshot_on_idle = FALSE
    /\ text = <<>>
    /\ last_ts_ms = 0
    /\ foreground = "W1"
    /\ isPassword = FALSE
    /\ uiaAvailable = TRUE
    /\ fieldValue = <<>>
    /\ keyCount = 0
    /\ plainSpan = TRUE
    /\ typedKeys = <<>>
    /\ lastKeyTime = 0
    /\ idlePolled = FALSE

\* the text buffer of a recorder that has just started
TextIdle == TextIdleWith(CHANNEL_CAPACITY)

\* send_session_event: the session_start / session_stop / ... record
SessionEvent(kind) == [type |-> kind]

\* the shutdown path of a recorder that is running
StopIdle ==
    /\ shutdown = FALSE
    /\ stopFile = FALSE
    /\ wmQuit = FALSE
    /\ mainPc = "loop"
    /\ watcherPc = "loop"
    /\ writerPc = "recv"
    /\ rxOpen = TRUE
    /\ batch = <<>>
    /\ stored = <<>>
    /\ stopsIssued = 0
    /\ interrupts = 0
    /\ hookEvents = 0
    /\ queued = <<>>
    /\ hookLog = <<>>
    /\ flushFailed = FALSE
    /\ writerLog = NoWriterLog
    /\ stopText = None
    /\ teardown = NoTeardown
    /\ recvStart = now
    /\ batchSince = None

\* the variables outside the text composition and the gate
outsideText == <<stopVars, outsideCore>>

GateIdle ==
    /\ gateCall = "none"
    /\ gateProc = None
    /\ gateUia = NoUia
    /\ gateOut = FALSE

TextInit ==
    /\ allowlist_processes = <<>>
    /\ blocklist_processes = << <<"b">> >>
    /\ safe_text_only = TRUE
    /\ capture_raw_keys = FALSE
    /\ GateIdle
    /\ now = 0
    /\ chan = <<>>
    /\ capacity = CHANNEL_CAPACITY
    /\ paused = FALSE
    /\ text_snapshot_on_idle \in BOOLEAN
    /\ text = <<>>
    /\ last_ts_ms = 0
    /\ foreground \in Windows
    /\ isPassword \in BOOLEAN
    /\ uiaAvailable \in BOOLEAN
    /\ fieldValue = <<>>
    /\ keyCount = 0
    /\ plainSpan = TRUE
    /\ typedKeys = <<>>
    /\ lastKeyTime = 0
    /\ idlePolled = FALSE
    /\ StopIdle
    /\ OutsideCoreIdle

(***************************************************************************)
(* Specifications of the gate: the configuration is loaded once            *)
(* (normalize_config), then the gate is called on the drawn inputs.        *)
(***************************************************************************)

MaxListLen == 2

\* entries a user may have written into config.json
ConfigEntries == { <<"a">>, <<"A", "b">>, <<" ", "b">>, <<" ">>, <<"d", "\\", "a">> }

ConfigLists ==
    UNION { [1..n -> ConfigEntries] : n \in 0..MaxListLen }

\* image paths QueryFullProcessImageNameW may report
ProcessPaths ==
    { <<"a">>, <<"A">>, <<"d", "\\", "a">>, <<"d", "\\", "A">>, <<"d", "/", "a", "b">>,
      <<"a", "\\", "d">>, <<"b">>, <<"d", "\\", "B">>, <<"a", "B">> }

ProcessNames == { None } \cup { Some(p) : p \in ProcessPaths }

\* SpecGate draws the lists and the process; SpecUia draws the accessibility
\* outcome.  The gate is called once on the drawn inputs.
GateInit ==
    /\ \E allow \in ConfigLists, block \in ConfigLists :
          /\ allowlist_processes = normalize_process_list(allow)
          /\ blocklist_processes = normalize_process_list(block)
    /\ safe_text_only \in BOOLEAN
    /\ capture_raw_keys = TRUE
    /\ gateCall = "none"
    /\ gateProc \in ProcessNames
    /\ gateUia \in {NoUia, OkEdit}
    /\ gateOut = FALSE
    /\ TextIdle
    /\ StopIdle
    /\ OutsideCoreIdle

UiaInit ==
    /\ allowlist_processes = <<>>
    /\ blocklist_processes \in { <<>>, << <<"b">> >> }
    /\ safe_text_only \in BOOLEAN
    /\ capture_raw_keys = TRUE
    /\ gateCall = "none"
    /\ gateProc \in { None, Some(<<"d", "\\", "a">>), Some(<<"d", "\\", "B">>) }
    /\ gateUia \in UiaOutcomes
    /\ gateOut = FALSE
    /\ TextIdle
    /\ StopIdle
    /\ OutsideCoreIdle

ShouldCaptureClipboard ==
    /\ gateCall = "none"
    /\ gateCall' = "clipboard"
    /\ gateOut' = should_capture_clipboard(allowlist_processes, blocklist_processes, gateProc)
    /\ UNCHANGED <<cfgVars, gateProc, gateUia>>

ShouldCaptureText ==
    /\ gateCall = "none"
    /\ gateCall' = "text"
    /\ gateOut' = should_capture_text(allowlist_processes, blocklist_processes,
                                      safe_text_only, gateProc, gateUia)
    /\ UNCHANGED <<cfgVars, gateProc, gateUia>>

vars == <<cfgVars, gateVars, chanVars, textVars, keyHistory, stopVars, outsideCore>>

GateNext ==
    \/ ShouldCaptureClipboard /\ UNCHANGED <<chanVars, textVars, keyHistory, outsideText>>
    \/ ShouldCaptureText /\ UNCHANGED <<chanVars, textVars, keyHistory, outsideText>>

SpecGate == GateInit /\ [][GateNext]_vars

SpecUia == UiaInit /\ [][GateNext]_vars

TextNext ==
    \/ (\E vk \in Keys : KeyboardHookProc(vk)) /\ UNCHANGED outsideText
    \/ StopWatcherIdle /\ UNCHANGED outsideText
    \/ TogglePassword /\ UNCHANGED outsideText
    \/ Tick /\ UNCHANGED outsideText

SpecText == TextInit /\ [][TextNext]_vars

(***************************************************************************)
(* Claims about the gate                                                   *)
(***************************************************************************)

SameLetter(c, d) == c = d \/ {c, d} = {"a", "A"} \/ {c, d} = {"b", "B"}

EqualIgnoringCase(s, t) ==
    Len(s) = Len(t) /\ \A i \in 1..Len(s) : SameLetter(s[i], t[i])

\* b is the executable base name of the image path p
IsBaseName(b, p) ==
    \E i \in 1..Len(p), j \in 1..Len(p) :
       /\ i <= j
       /\ b = SubSeq(p, i, j)
       /\ \A k \in i..j : ~IsSeparator(p[k])
       /\ i = 1 \/ IsSeparator(p[i - 1])
       /\ j = Len(p)

BaseNameOnList(list, process_name) ==
    /\ process_name # None
    /\ \E i \in 1..Len(list) :
          \E n \in 1..Len(process_name[1]) :
             LET b == SubSeq(process_name[1], Len(process_name[1]) - n + 1, Len(process_name[1]))
             IN  IsBaseName(b, process_name[1]) /\ EqualIgnoringCase(list[i], b)

ProcessGateDecision ==
    IF BaseNameOnList(blocklist_processes, gateProc) THEN FALSE
    ELSE IF allowlist_processes # <<>> THEN BaseNameOnList(allowlist_processes, gateProc)
    ELSE TRUE

C8_DeniedWhenAnyQueryFails ==
    gateCall = "text" /\ safe_text_only /\ gateOut =>
       /\ gateUia.uia /\ gateUia.element
       /\ gateUia.focus = "true"
       /\ gateUia.pass = "false"
       /\ gateUia.ctype \in {"edit", "document"}

(***************************************************************************)
(* Text composition claims (SpecText)                                      *)
(***************************************************************************)

TextEvents == SelectSeq(chan, LAMBDA e : e.type = "text_input")

HasDenied(s) == \E i \in 1..Len(s) : s[i].denied

\* C6: a key pressed while the gate denies capture is never in the text
\* buffer, and no text event contains a character typed while capture was
\* denied, neither in its text nor in its final_text.
C6_NoDeniedCharacter ==
    /\ ~HasDenied(text)
    /\ \A i \in 1..Len(TextEvents) :
           /\ ~HasDenied(TextEvents[i].text)
           /\ TextEvents[i].final_text # None => ~HasDenied(TextEvents[i].final_text[1])

(***************************************************************************)
(* Shutdown path: run_recorder after startup, spawn_stop_watcher, the      *)
(* interrupt handler and run_writer                                        *)
(***************************************************************************)

\* run_writer flushes when its buffer holds this many records (200), scaled
BatchSize == 3
\* the pointer hook sends at most this many records
MaxHookEvents == 2

\* what the shutdown path leaves alone
stopFrameBase == <<cfgVars, gateVars, now, capacity, paused, text_snapshot_on_idle,
                  foreground, isPassword, uiaAvailable, fieldValue, keyHistory, outsideCore>>
\* ... by the writer, by the main thread, by the other threads
writerFrame == <<stopFrameBase, teardown>>
stopFrameMain == <<stopFrameBase, recvStart, batchSince>>
stopFrame == <<stopFrameMain, teardown>>

\* the records the step has put into the channel
Accepted(before, after) == SubSeq(after, Len(before) + 1, Len(after))

\* the ts_mono_ms of a sequence of records
Stamps(records) == [i \in 1..Len(records) |-> records[i].ts_mono_ms]

\* flush_text_buffer(state, reason) by any thread
FlushTextBuffer(reason) ==
    LET b0 == [text |-> text, ts |-> last_ts_ms, out |-> chan]
        b1 == flush_text_buffer_with_window(b0, foreground, reason, UiaNow)
    IN  /\ text' = b1.text
        /\ last_ts_ms' = b1.ts
        /\ chan' = b1.out
        /\ queued' = queued \o Accepted(chan, b1.out)
        /\ hookLog' = hookLog

\* stop_recorder: the `stop` command writes stop.signal and removes
\* pause.signal
StopCommand ==
    /\ stopsIssued < 1
    /\ mainPc # "exit"
    /\ stopsIssued' = stopsIssued + 1
    /\ stopFile' = TRUE
    /\ pauseFile' = FALSE
    /\ UNCHANGED <<cfgVars, gateVars, now, capacity, paused, text_snapshot_on_idle, foreground,
                   isPassword, uiaAvailable, fieldValue, keyHistory, lockVars, clipVars,
                   laterVars, last_paused, scroll_buffer, pauseCommands, wheelTicks, tickLog,
                   snapshots, pausedSends, recvStart, batchSince, teardown,
                   chan, text, last_ts_ms, shutdown, wmQuit, mainPc, watcherPc,
                   writerPc, rxOpen, batch, stored, interrupts, hookEvents, queued, hookLog,
                   flushFailed, writerLog, stopText>>

\* the ctrlc handler: signal_shutdown
CtrlC ==
    /\ interrupts < 1
    /\ mainPc # "exit"
    /\ interrupts' = interrupts + 1
    /\ shutdown' = TRUE
    /\ wmQuit' = TRUE
    /\ UNCHANGED <<stopFrame, chan, text, last_ts_ms, stopFile, mainPc, watcherPc, writerPc,
                   rxOpen, batch, stored, stopsIssued, hookEvents, queued, hookLog, flushFailed, writerLog,
                   stopText>>

\* mouse_hook_proc, dispatched by the message loop: one record
MouseHookProc ==
    /\ mainPc = "loop"
    /\ ~paused
    /\ hookEvents < MaxHookEvents
    /\ hookEvents' = hookEvents + 1
    /\ chan' = try_send(chan, [type |-> "mouse_click", n |-> hookEvents + 1,
                                ts_mono_ms |-> now])
    /\ queued' = queued \o Accepted(chan, chan')
    /\ hookLog' = hookLog \o Stamps(Accepted(chan, chan'))
    /\ UNCHANGED <<stopFrame, text, last_ts_ms, shutdown, stopFile, wmQuit, mainPc,
                   watcherPc, writerPc, rxOpen, batch, stored, stopsIssued, interrupts,
                   flushFailed, writerLog, stopText>>

\* a removal that fails: the file is still there
remove_file_fails(exists) == exists

\* let _ = fs::remove_file(&path): the file is gone
remove_file(exists) == FALSE

\* spawn_stop_watcher, one pass of the loop up to the removal of stop.signal
StopWatcherPoll ==
    /\ watcherPc = "loop"
    /\ IF shutdown
       THEN /\ watcherPc' = "done"
            /\ UNCHANGED <<stopFile, stopText, text, last_ts_ms, chan, queued, hookLog>>
       ELSE IF stopFile
       THEN /\ stopFile' = remove_file(stopFile)
            /\ watcherPc' = "stop_flush"
            /\ stopText' = IF text # <<>> THEN Some(Chars(text)) ELSE stopText
            /\ UNCHANGED <<text, last_ts_ms, chan, queued, hookLog>>
       ELSE /\ IF ~paused /\ IsStale([text |-> text, ts |-> last_ts_ms, out |-> chan])
               THEN FlushTextBuffer("idle_timeout")
               ELSE UNCHANGED <<text, last_ts_ms, chan, queued, hookLog>>
            /\ UNCHANGED <<stopFile, watcherPc, stopText>>
    /\ UNCHANGED <<stopFrame, shutdown, wmQuit, mainPc, writerPc, rxOpen, batch, stored,
                   stopsIssued, interrupts, hookEvents, flushFailed, writerLog>>

\* spawn_stop_watcher: flush_text_buffer(&state, "stop_signal")
StopWatcherFlush ==
    /\ watcherPc = "stop_flush"
    /\ FlushTextBuffer("stop_signal")
    /\ watcherPc' = "signal"
    /\ UNCHANGED <<stopFrame, shutdown, stopFile, wmQuit, mainPc, writerPc, rxOpen, batch,
                   stored, stopsIssued, interrupts, hookEvents, flushFailed, writerLog, stopText>>

\* spawn_stop_watcher: signal_shutdown, break
StopWatcherSignal ==
    /\ watcherPc = "signal"
    /\ shutdown' = TRUE
    /\ wmQuit' = TRUE
    /\ watcherPc' = "done"
    /\ UNCHANGED <<stopFrame, chan, text, last_ts_ms, stopFile, mainPc, writerPc, rxOpen,
                   batch, stored, stopsIssued, interrupts, hookEvents, queued, hookLog, flushFailed, writerLog,
                   stopText>>

\* run_recorder: GetMessageW returns false on WM_QUIT
MainGetMessage ==
    /\ mainPc = "loop"
    /\ wmQuit
    /\ mainPc' = "session_end"
    /\ UNCHANGED <<stopFrame, chan, text, last_ts_ms, shutdown, stopFile, wmQuit, watcherPc,
                   writerPc, rxOpen, batch, stored, stopsIssued, interrupts, hookEvents,
                   queued, hookLog, flushFailed, writerLog, stopText>>

\* run_recorder: flush_text_buffer(&state, "session_end")
MainFlush ==
    /\ mainPc = "session_end"
    /\ FlushTextBuffer("session_end")
    /\ mainPc' = "session_stop"
    /\ UNCHANGED <<stopFrame, shutdown, stopFile, wmQuit, watcherPc, writerPc, rxOpen, batch,
                   stored, stopsIssued, interrupts, hookEvents, flushFailed, writerLog, stopText>>

\* a teardown that leaves the hooks installed
stop_and_unhook_keeps_hooks(t) == [t EXCEPT !.session_stops = @ + 1]

\* run_recorder after the message loop: session_stop is sent, then the four
\* hooks are removed
stop_and_unhook(t) == [t EXCEPT !.session_stops = @ + 1, !.unhooks = @ + 1]

\* run_recorder: shutdown.store(true), send_session_event("session_stop"),
\* the hooks are removed
MainSessionStop ==
    /\ mainPc = "session_stop"
    /\ shutdown' = TRUE
    /\ chan' = try_send(chan, SessionEvent("session_stop"))
    /\ queued' = queued \o Accepted(chan, chan')
    /\ hookLog' = hookLog
    /\ teardown' = stop_and_unhook(teardown)
    /\ mainPc' = "join"
    /\ UNCHANGED <<stopFrameMain, text, last_ts_ms, stopFile, wmQuit, watcherPc, writerPc, rxOpen,
                   batch, stored, stopsIssued, interrupts, hookEvents, flushFailed, writerLog, stopText>>

\* run_recorder: the joins, then the lock is removed and the process exits
MainJoin ==
    /\ mainPc = "join"
    /\ watcherPc = "done"
    /\ writerPc = "done"
    /\ mainPc' = "exit"
    /\ teardown' = [teardown EXCEPT !.lock_removals = @ + 1]
    /\ UNCHANGED <<stopFrameMain, chan, text, last_ts_ms, shutdown, stopFile, wmQuit, watcherPc,
                   writerPc, rxOpen, batch, stored, stopsIssued, interrupts, hookEvents,
                   queued, hookLog, flushFailed, writerLog, stopText>>

\* a flush_events without a transaction: the rows inserted before the
\* failure stay
flush_events_without_transaction(records, ok) ==
    IF ok THEN stored \o records ELSE Append(stored, Head(records))

\* flush_events: the batch is stored in one transaction, or the call fails
\* and nothing of it is stored
FlushEvents(records, ok) == IF ok THEN stored \o records ELSE stored

\* run_writer: if let Err(err) = flush_events(..) { eprintln!(..) }, then
\* buffer.clear()
after_flush(log, records, ok) ==
    IF ok THEN log
    ELSE [stderr |-> log.stderr + 1, discarded |-> Append(log.discarded, records)]

\* a writer that leaves its loop only when the channel is disconnected,
\* which the sender kept in the recorder state never lets happen
ShouldBreakOnDisconnect == FALSE

\* run_writer: if shutdown.load(SeqCst) && rx.is_empty() { break }
ShouldBreak == shutdown /\ chan = <<>>

\* run_writer: recv_timeout returns Ok(event); the loop calls recv_timeout
\* again
WriterRecv ==
    /\ writerPc = "recv"
    /\ chan # <<>>
    /\ chan' = Tail(chan)
    /\ recvStart' = now
    /\ LET pushed == Append(batch, Head(chan))
       IN  IF Len(pushed) >= BatchSize
           THEN \E ok \in BOOLEAN :
                   /\ stored' = FlushEvents(pushed, ok)
                   /\ flushFailed' = (flushFailed \/ ~ok)
                   /\ writerLog' = after_flush(writerLog, pushed, ok)
                   /\ batch' = <<>>
                   /\ batchSince' = None
           ELSE /\ batch' = pushed
                /\ batchSince' = IF batch = <<>> THEN Some(now) ELSE batchSince
                /\ UNCHANGED <<stored, flushFailed, writerLog>>
    /\ UNCHANGED <<writerFrame, text, last_ts_ms, shutdown, stopFile, wmQuit, mainPc,
                   watcherPc, writerPc, rxOpen, stopsIssued, interrupts, hookEvents, queued, hookLog,
                   stopText>>

\* run_writer: recv_timeout returns Err(Timeout); a non-empty buffer is
\* flushed.  Where the clock is not followed the timeout may come at any time.
WriterTimeout ==
    /\ writerPc = "recv"
    /\ chan = <<>>
    /\ IF batch # <<>>
       THEN \E ok \in BOOLEAN :
               /\ stored' = FlushEvents(batch, ok)
               /\ flushFailed' = (flushFailed \/ ~ok)
               /\ writerLog' = after_flush(writerLog, batch, ok)
               /\ batch' = <<>>
       ELSE UNCHANGED <<stored, flushFailed, writerLog, batch>>
    /\ batchSince' = None
    /\ writerPc' = "check"
    /\ UNCHANGED <<writerFrame, chan, text, last_ts_ms, shutdown, stopFile, wmQuit, mainPc,
                   watcherPc, rxOpen, stopsIssued, interrupts, hookEvents, queued, hookLog, stopText,
                   recvStart>>

\* run_writer: the shutdown check of the Timeout arm; the loop calls
\* recv_timeout again
WriterCheck ==
    /\ writerPc = "check"
    /\ writerPc' = IF ShouldBreak THEN "exiting" ELSE "recv"
    /\ recvStart' = now
    /\ UNCHANGED <<writerFrame, chan, text, last_ts_ms, shutdown, stopFile, wmQuit, mainPc,
                   watcherPc, rxOpen, batch, stored, stopsIssued, interrupts, hookEvents,
                   queued, hookLog, flushFailed, writerLog, stopText, batchSince>>

\* run_writer returns: rx is dropped and with it whatever the channel holds
WriterReturn ==
    /\ writerPc = "exiting"
    /\ writerPc' = "done"
    /\ rxOpen' = FALSE
    /\ chan' = <<>>
    /\ UNCHANGED <<writerFrame, text, last_ts_ms, shutdown, stopFile, wmQuit, mainPc,
                   watcherPc, batch, stored, stopsIssued, interrupts, hookEvents, queued, hookLog,
                   flushFailed, writerLog, stopText, recvStart, batchSince>>

\* The recorder is running: session_start has been sent, the text buffer is
\* empty or holds "aé", fresh or stale.
StopStart ==
    /\ allowlist_processes = <<>>
    /\ blocklist_processes = << <<"b">> >>
    /\ safe_text_only = FALSE
    /\ capture_raw_keys = FALSE
    /\ GateIdle
    /\ now \in {0, TextFlushTicks}
    /\ chan = << SessionEvent("session_start") >>
    /\ capacity = CHANNEL_CAPACITY
    /\ paused = FALSE
    /\ text_snapshot_on_idle = FALSE
    /\ text \in { <<>>, << [ch |-> "a", denied |-> FALSE], [ch |-> "é", denied |-> FALSE] >> }
    /\ last_ts_ms = 0
    /\ foreground = "W1"
    /\ isPassword = FALSE
    /\ uiaAvailable = TRUE
    /\ fieldValue = <<>>
    /\ keyCount = 0
    /\ plainSpan = FALSE
    /\ typedKeys = <<>>
    /\ lastKeyTime = 0
    /\ idlePolled = FALSE
    /\ shutdown = FALSE
    /\ stopFile = FALSE
    /\ wmQuit = FALSE
    /\ mainPc = "loop"
    /\ watcherPc = "loop"
    /\ writerPc = "recv"
    /\ rxOpen = TRUE
    /\ batch = <<>>
    /\ stored = <<>>
    /\ stopsIssued = 0
    /\ interrupts = 0
    /\ hookEvents = 0
    /\ queued = << SessionEvent("session_start") >>
    /\ hookLog = <<>>
    /\ flushFailed = FALSE
    /\ writerLog = NoWriterLog
    /\ stopText = None
    /\ teardown = NoTeardown
    /\ recvStart = now
    /\ batchSince = None

StopInit == StopStart /\ OutsideCoreIdle

StopNext ==
    \/ StopCommand
    \/ CtrlC
    \/ MouseHookProc
    \/ StopWatcherPoll
    \/ StopWatcherFlush
    \/ StopWatcherSignal
    \/ MainGetMessage
    \/ MainFlush
    \/ MainSessionStop
    \/ MainJoin
    \/ WriterRecv
    \/ WriterTimeout
    \/ WriterCheck
    \/ WriterReturn

SpecStop == StopInit /\ [][StopNext]_vars

(***************************************************************************)
(* Shutdown claims (SpecStop)                                              *)
(***************************************************************************)

IsTextOf(e, t) == e.type = "text_input" /\ Chars(e.text) = t

\* C1: when the stop signal was observed while the text buffer held T, then,
\* once the process has exited (no interrupt having arrived and no write
\* having failed), the events table holds a text_input event with text T
\* and, after it, a session_stop event.
C1_TextThenStopStored ==
    (mainPc = "exit" /\ stopText # None /\ interrupts = 0 /\ ~flushFailed) =>
        \E i, j \in 1..Len(stored) :
            /\ i < j
            /\ IsTextOf(stored[i], stopText[1])
            /\ stored[j].type = "session_stop"

\* C2: once the process has exited after a shutdown in which no write
\* failed, every record that was put into the channel is in the events
\* table, in the order of the sends.
C2_NoQueuedRecordLost ==
    (mainPc = "exit" /\ ~flushFailed) => stored = queued

\* the records the writer has received from the channel so far, while it
\* holds the receiver
Received == SubSeq(queued, 1, Len(queued) - Len(chan))

\* r is kept, in its order, with the batches of failed laid between its
\* records, each batch whole and the batches in their order
RECURSIVE IsMerge(_, _, _)
IsMerge(r, kept, failed) ==
    IF r = <<>> THEN kept = <<>> /\ failed = <<>>
    ELSE \/ /\ kept # <<>>
            /\ Head(kept) = Head(r)
            /\ IsMerge(Tail(r), Tail(kept), failed)
         \/ /\ failed # <<>>
            /\ Len(Head(failed)) <= Len(r)
            /\ SubSeq(r, 1, Len(Head(failed))) = Head(failed)
            /\ IsMerge(SubSeq(r, Len(Head(failed)) + 1, Len(r)), kept, Tail(failed))

\* C35: the events table, followed by the batch in the writer's hands, is
\* the sequence of records received from the channel with the records of
\* the failed batches removed: nothing is stored twice, nothing out of
\* order, and nothing else is missing; once the writer has left its loop
\* the table does not change.
C35_StoredIsReceivedLessFailed ==
    /\ [](rxOpen => IsMerge(Received, stored \o batch, writerLog.discarded))
    /\ [][(writerPc \in {"exiting", "done"}) => (stored' = stored)]_vars

\* the first batch has failed and a later one is stored
C35_Witness ==
    /\ rxOpen
    /\ Len(writerLog.discarded) = 1
    /\ Head(Received) = Head(writerLog.discarded[1])
    /\ stored # <<>>
    /\ batch # <<>>

IsSessionStop(e) == e.type = "session_stop"

\* C15: whether shutdown is requested by the stop signal, by the interrupt
\* or by both, the teardown runs once: session_stop is sent at most once,
\* the hooks and the lock are removed at most once, nothing of it happens
\* before a shutdown was requested, and when the process has exited each of
\* the three has happened exactly once.
C15_TeardownOnce ==
    /\ teardown.session_stops <= 1
    /\ teardown.unhooks <= 1
    /\ teardown.lock_removals <= 1
    /\ Len(SelectSeq(queued, IsSessionStop)) <= 1
    /\ teardown # NoTeardown => (stopsIssued > 0 \/ interrupts > 0)
    /\ mainPc = "exit" =>
           teardown = [session_stops |-> 1, unhooks |-> 1, lock_removals |-> 1]

\* the stop watcher has taken the stop signal, the interrupt has arrived as
\* well, and the process has exited
C15_Witness ==
    /\ mainPc = "exit"
    /\ stopsIssued = 1
    /\ ~stopFile
    /\ interrupts = 1
    /\ teardown.session_stops = 1

\* the records of a sequence of records / of a sequence of batches
Records(q) == { q[i] : i \in 1..Len(q) }
RecordsOfBatches(bs) == UNION { Records(bs[i]) : i \in 1..Len(bs) }

\* the batch a flush of this step works on: the buffer, with the record just
\* received when the flush follows a receive
FlushedBatch == IF chan' = chan THEN batch ELSE Append(batch, Head(chan))

\* C21: a failed write of a batch is logged (one line on stderr per failed
\* batch), the records of the batch are dropped from the buffer without being
\* stored or put back into the channel, and are not stored later; the writer
\* stays in its loop, and a later batch that is written goes to the table
\* whole.
C21_FailedBatchDiscardedWriterGoesOn ==
    [][/\ writerLog'.stderr > writerLog.stderr =>
              /\ writerLog'.stderr = writerLog.stderr + 1
              /\ writerLog'.discarded = Append(writerLog.discarded, FlushedBatch)
              /\ batch' = <<>>
              /\ stored' = stored
              /\ chan' = chan \/ (chan # <<>> /\ chan' = Tail(chan))
              /\ writerPc' \in {"recv", "check"}
       /\ stored' # stored =>
              /\ stored' = stored \o FlushedBatch
              /\ batch' = <<>>
              /\ writerLog' = writerLog
       /\ writerLog'.stderr = Len(writerLog'.discarded)
       /\ RecordsOfBatches(writerLog'.discarded)
              \cap (Records(stored') \cup Records(batch') \cup Records(chan')) = {}
      ]_vars

\* the write of the batch with session_start has failed and a later record
\* has been written
C21_Witness ==
    /\ writerLog.stderr = 1
    /\ SessionEvent("session_start") \in Records(writerLog.discarded[1])
    /\ stored # <<>>
    /\ writerPc = "recv"

(***************************************************************************)
(* The lock marker: run_recorder's startup check, write_lock, the lock     *)
(* removal at exit, and the stale-lock clearing of `status` and `stop`     *)
(***************************************************************************)

\* what the lock protocol leaves alone
lockFrame == <<cfgVars, gateVars, chanVars, textVars, keyHistory, stopVars, pauseVars,
              clipVars, laterVars>>

\* the hooks run_recorder installs, in this order: install_hooks (mouse,
\* keyboard), install_window_event_hooks (foreground, location)
HookNames == {"mouse", "keyboard", "foreground", "location"}

\* is_pid_running(pid)
is_pid_running(pid) ==
    IF pid = "old" THEN oldRunning
    ELSE recPc[pid] \in {"check", "passed", "install", "recording", "aborting"}

\* `start` is invoked
StartInvoked(p) ==
    /\ recPc[p] = "idle"
    /\ recPc' = [recPc EXCEPT ![p] = "check"]
    /\ UNCHANGED <<lockFrame, lockFile, hooks, oldRunning>>

\* run_recorder: if lock_path.exists() { "already running"; return }
LockCheck(p) ==
    /\ recPc[p] = "check"
    /\ recPc' = [recPc EXCEPT ![p] = IF lockFile # None THEN "refused" ELSE "passed"]
    /\ UNCHANGED <<lockFrame, lockFile, hooks, oldRunning>>

\* run_recorder: write_lock(&lock_path, &session), then the writer and the
\* watcher threads are spawned
WriteLock(p) ==
    /\ recPc[p] = "passed"
    /\ lockFile' = Some(p)
    /\ recPc' = [recPc EXCEPT ![p] = "install"]
    /\ UNCHANGED <<lockFrame, hooks, oldRunning>>

\* install_hooks and install_window_event_hooks when the installation of
\* `failing` fails ("none": all four succeed): the hooks left installed
installed_hooks(failing) ==
    IF failing = "none" THEN HookNames
    ELSE IF failing \in {"mouse", "keyboard"} THEN {}
    ELSE {"mouse", "keyboard"}

\* run_recorder: install_hooks()?, install_window_event_hooks()?
InstallHooks(p, failing) ==
    /\ recPc[p] = "install"
    /\ hooks' = [hooks EXCEPT ![p] = installed_hooks(failing)]
    /\ recPc' = [recPc EXCEPT ![p] = IF failing = "none" THEN "recording" ELSE "aborting"]
    /\ UNCHANGED <<lockFrame, lockFile, oldRunning>>

\* main returns the error of run_recorder: the process ends, and with it
\* its threads and the hooks it still holds
AbortExit(p) ==
    /\ recPc[p] = "aborting"
    /\ hooks' = [hooks EXCEPT ![p] = {}]
    /\ recPc' = [recPc EXCEPT ![p] = "failed"]
    /\ UNCHANGED <<lockFrame, lockFile, oldRunning>>

\* run_recorder: shutdown, the hooks are removed, fs::remove_file(lock_path),
\* the process exits
RemoveLockAndExit(p) ==
    /\ recPc[p] = "recording"
    /\ lockFile' = None
    /\ hooks' = [hooks EXCEPT ![p] = {}]
    /\ recPc' = [recPc EXCEPT ![p] = "exited"]
    /\ UNCHANGED <<lockFrame, oldRunning>>

\* the recorder process is killed: its lock stays behind
Killed(p) ==
    /\ recPc[p] = "recording"
    /\ hooks' = [hooks EXCEPT ![p] = {}]
    /\ recPc' = [recPc EXCEPT ![p] = "killed"]
    /\ UNCHANGED <<lockFrame, lockFile, oldRunning>>

\* print_status / stop_recorder: a lock whose pid is not running is removed
ClearStaleLock ==
    /\ lockFile # None
    /\ ~is_pid_running(lockFile[1])
    /\ lockFile' = None
    /\ UNCHANGED <<lockFrame, recPc, hooks, oldRunning>>

\* the process that wrote the lock found at start ends without removing it
OldProcessEnds ==
    /\ oldRunning
    /\ oldRunning' = FALSE
    /\ UNCHANGED <<lockFrame, lockFile, recPc, hooks>>

\* A data directory without a lock, or with the lock of an earlier recorder.
LockInit ==
    /\ allowlist_processes = <<>>
    /\ blocklist_processes = <<>>
    /\ safe_text_only = TRUE
    /\ capture_raw_keys = TRUE
    /\ GateIdle
    /\ TextIdle
    /\ StopIdle
    /\ PauseIdle
    /\ ClipIdle
    /\ LaterIdle
    /\ recPc = [p \in Starts |-> "idle"]
    /\ hooks = [p \in Starts |-> {}]
    /\ \/ lockFile = None /\ oldRunning = FALSE
       \/ lockFile = Some("old") /\ oldRunning = TRUE

LockNext ==
    \/ \E p \in Starts : StartInvoked(p)
    \/ \E p \in Starts : LockCheck(p)
    \/ \E p \in Starts : WriteLock(p)
    \/ \E p \in Starts, failing \in HookNames \cup {"none"} : InstallHooks(p, failing)
    \/ \E p \in Starts : AbortExit(p)
    \/ \E p \in Starts : RemoveLockAndExit(p)
    \/ \E p \in Starts : Killed(p)
    \/ ClearStaleLock
    \/ OldProcessEnds

SpecLock == LockInit /\ [][LockNext]_vars

(***************************************************************************)
(* Lock claims (SpecLock)                                                  *)
(***************************************************************************)

\* C3: of two `start` invocations on the same data directory at most one
\* passes the lock check and records; never are two of them recording.
C3_AtMostOneRecorder ==
    \A p, q \in Starts : (recPc[p] = "recording" /\ recPc[q] = "recording") => p = q

\* C16: `start` is refused as "already running" only when the process
\* recorded in the lock marker is running; a lock whose owner is no longer
\* running does not make the lock check refuse the start.
C16_StaleLockNotRefused ==
    [][\A p \in Starts :
           (recPc[p] = "check" /\ recPc'[p] = "refused") =>
               (lockFile # None /\ is_pid_running(lockFile[1]))]_vars

\* C17: when a `start` has ended because a hook could not be installed, it
\* has left nothing behind: the lock marker does not name it and none of its
\* hooks is installed.
C17_FailedStartLeavesNothing ==
    \A p \in Starts : recPc[p] = "failed" => (lockFile # Some(p) /\ hooks[p] = {})

(***************************************************************************)
(* Pause: the pause and resume commands, spawn_pause_watcher, the hooks,   *)
(* the snapshot loop and spawn_scroll_flush                                *)
(***************************************************************************)

\* spawn_scroll_flush and buffer_mouse_scroll: the aggregation gap (200 ms)
ScrollGapTicks == 1
\* `pause` / `resume` commands of a behaviour
MaxPauseCommands == 2
\* wheel messages of a behaviour
MaxWheelTicks == 3
\* snapshots of a behaviour
MaxSnapshots == 1
\* WHEEL_DELTA: one notch of the wheel, away from the user
WheelDelta == 120
\* key presses of a behaviour with pauses
MaxPauseKeys == 1

\* what the pause machinery leaves alone
pauseFrame == <<cfgVars, gateVars, now, capacity, text_snapshot_on_idle, foreground,
               isPassword, uiaAvailable, fieldValue, keyHistory, lockVars, clipVars, laterVars, shutdown,
               stopFile, wmQuit, mainPc, watcherPc, writerPc, rxOpen, batch, stored,
               stopsIssued, interrupts, hookEvents, flushFailed, writerLog, stopText, teardown,
               recvStart, batchSince>>

\* the types of the records the step has put into the channel while paused
SentWhilePaused(before, after) ==
    IF paused THEN { Accepted(before, after)[i].type : i \in 1..(Len(after) - Len(before)) }
    ELSE {}

\* pause_recorder / resume_recorder: pause.signal is written or removed
PauseCommand ==
    /\ pauseCommands < MaxPauseCommands
    /\ pauseCommands' = pauseCommands + 1
    /\ pauseFile' = ~pauseFile
    /\ UNCHANGED <<pauseFrame, paused, chan, queued, hookLog, text, last_ts_ms, last_paused,
                   scroll_buffer, wheelTicks, tickLog, snapshots, pausedSends>>

\* spawn_pause_watcher, one pass of the loop
PauseWatcherPoll ==
    /\ ~shutdown
    /\ pauseFile # last_paused
    /\ paused' = pauseFile
    /\ last_paused' = pauseFile
    /\ IF pauseFile
       THEN LET b0 == [text |-> text, ts |-> last_ts_ms, out |-> chan]
                b1 == flush_text_buffer_with_window(b0, foreground, "pause", UiaNow)
            IN  /\ text' = b1.text
                /\ last_ts_ms' = b1.ts
                /\ chan' = try_send(b1.out, SessionEvent("session_pause"))
       ELSE /\ chan' = try_send(chan, SessionEvent("session_resume"))
            /\ UNCHANGED <<text, last_ts_ms>>
    /\ queued' = queued \o Accepted(chan, chan')
    /\ hookLog' = hookLog
    /\ UNCHANGED <<pauseFrame, pauseFile, scroll_buffer, pauseCommands, wheelTicks, tickLog, snapshots,
                   pausedSends>>

\* flush_scroll_buffer(state, &mut buffer).out: the mouse_scroll record is sent
flush_scroll_buffer(buffer, queue) ==
    IF buffer = None THEN queue
    ELSE try_send(queue, [type |-> "mouse_scroll", ticks |-> buffer[1].ticks,
                          total_delta |-> buffer[1].total_delta,
                          ts_mono_ms |-> buffer[1].last_ts_ms])

\* buffer_mouse_scroll that starts a new sum with every message
buffer_mouse_scroll_keeps_last_delta(buffer, queue, mono_ms, delta) ==
    IF buffer # None /\ mono_ms - buffer[1].last_ts_ms <= ScrollGapTicks
    THEN [buffer |-> Some([last_ts_ms |-> mono_ms, total_delta |-> delta,
                           ticks |-> buffer[1].ticks + 1]),
          out |-> queue]
    ELSE [buffer |-> Some([last_ts_ms |-> mono_ms, total_delta |-> delta, ticks |-> 1]),
          out |-> flush_scroll_buffer(buffer, queue)]

\* buffer_mouse_scroll(state, mono_ms, data, delta): the buffer and the channel
\* it leaves
buffer_mouse_scroll(buffer, queue, mono_ms, delta) ==
    IF buffer # None /\ mono_ms - buffer[1].last_ts_ms <= ScrollGapTicks
    THEN [buffer |-> Some([last_ts_ms |-> mono_ms,
                           total_delta |-> buffer[1].total_delta + delta,
                           ticks |-> buffer[1].ticks + 1]),
          out |-> queue]
    ELSE [buffer |-> Some([last_ts_ms |-> mono_ms, total_delta |-> delta, ticks |-> 1]),
          out |-> flush_scroll_buffer(buffer, queue)]

\* mouse_hook_proc for WM_MOUSEWHEEL: buffer_mouse_scroll
MouseWheel(delta) ==
    /\ wheelTicks < MaxWheelTicks
    /\ wheelTicks' = wheelTicks + 1
    /\ IF paused
       THEN UNCHANGED <<scroll_buffer, chan, queued, hookLog, pausedSends, tickLog>>
       ELSE LET r == buffer_mouse_scroll(scroll_buffer, chan, now, delta)
            IN  /\ scroll_buffer' = r.buffer
                /\ chan' = r.out
                /\ tickLog' = Append(tickLog, [at |-> now, delta |-> delta])
                /\ queued' = queued \o Accepted(chan, chan')
                /\ hookLog' = hookLog \o Stamps(Accepted(chan, chan'))
                /\ pausedSends' = pausedSends \cup SentWhilePaused(chan, chan')
    /\ UNCHANGED <<pauseFrame, paused, text, last_ts_ms, pauseFile, last_paused,
                   pauseCommands, snapshots>>

\* a flusher that finds no aggregation old enough
scroll_never_quiet(buffer, mono_ms) == FALSE

\* spawn_scroll_flush: the aggregation has had no tick for more than the gap
scroll_gone_quiet(buffer, mono_ms) ==
    buffer # None /\ mono_ms - buffer[1].last_ts_ms > ScrollGapTicks

\* spawn_scroll_flush, one pass of the loop
ScrollFlush ==
    /\ ~shutdown
    /\ scroll_gone_quiet(scroll_buffer, now)
    /\ chan' = flush_scroll_buffer(scroll_buffer, chan)
    /\ scroll_buffer' = None
    /\ queued' = queued \o Accepted(chan, chan')
    /\ hookLog' = hookLog
    /\ pausedSends' = pausedSends \cup SentWhilePaused(chan, chan')
    /\ UNCHANGED <<pauseFrame, paused, text, last_ts_ms, pauseFile, last_paused,
                   pauseCommands, wheelTicks, tickLog, snapshots>>

\* spawn_snapshot_loop, one pass of the loop
SnapshotLoop ==
    /\ ~shutdown
    /\ snapshots < MaxSnapshots
    /\ snapshots' = snapshots + 1
    /\ IF paused
       THEN UNCHANGED <<chan, queued, hookLog, pausedSends>>
       ELSE /\ chan' = try_send(chan, [type |-> "snapshot"])
            /\ queued' = queued \o Accepted(chan, chan')
            /\ hookLog' = hookLog
            /\ pausedSends' = pausedSends \cup SentWhilePaused(chan, chan')
    /\ UNCHANGED <<pauseFrame, paused, text, last_ts_ms, pauseFile, last_paused,
                   scroll_buffer, pauseCommands, wheelTicks, tickLog>>

\* keyboard_hook_proc: returns at once while paused
PausableKey ==
    /\ keyCount < MaxPauseKeys
    /\ IF paused
       THEN /\ keyCount' = keyCount + 1
            /\ UNCHANGED <<cfgVars, gateVars, chanVars, textVars, plainSpan, typedKeys,
                           lastKeyTime, idlePolled>>
       ELSE KeyboardHookProc("a")
    /\ queued' = queued \o Accepted(chan, chan')
    /\ hookLog' = hookLog
    /\ pausedSends' = pausedSends \cup SentWhilePaused(chan, chan')
    /\ UNCHANGED <<lockVars, clipVars, laterVars, shutdown, stopFile, wmQuit, mainPc, watcherPc, writerPc,
                   rxOpen, batch, stored, stopsIssued, interrupts, hookEvents, flushFailed, writerLog, stopText,
                   teardown, recvStart, batchSince,
                   pauseFile, last_paused, scroll_buffer, pauseCommands, wheelTicks, tickLog,
                   snapshots>>

PauseInit ==
    /\ allowlist_processes = <<>>
    /\ blocklist_processes = <<>>
    /\ safe_text_only = FALSE
    /\ capture_raw_keys = TRUE
    /\ GateIdle
    /\ TextIdle
    /\ StopIdle
    /\ LockIdle
    /\ PauseIdle
    /\ ClipIdle
    /\ LaterIdle

PauseNext ==
    \/ PauseCommand
    \/ PauseWatcherPoll
    \/ MouseWheel(WheelDelta)
    \/ ScrollFlush
    \/ SnapshotLoop
    \/ PausableKey
    \/ Tick /\ UNCHANGED outsideText

SpecPause == PauseInit /\ [][PauseNext]_vars

(***************************************************************************)
(* Pause claims (SpecPause)                                                *)
(***************************************************************************)

\* C4: while the recorder is paused no producer (hook, snapshot loop, scroll
\* flusher) puts a record into the channel.
C4_NothingSentWhilePaused == pausedSends = {}

(***************************************************************************)
(* Scroll aggregation: the wheel messages of a recorder that is not paused *)
(* and spawn_scroll_flush                                                  *)
(***************************************************************************)

\* the high word of mouseData: a notch away from or towards the user
WheelDeltas == {WheelDelta, -WheelDelta}

ScrollInit == PauseInit

ScrollNext ==
    \/ \E delta \in WheelDeltas : MouseWheel(delta)
    \/ ScrollFlush
    \/ Tick /\ UNCHANGED outsideText

SpecScroll == ScrollInit /\ [][ScrollNext]_vars

\* the runs of a tick sequence: a tick joins the run of the tick before it
\* when it comes within the aggregation gap of it, and starts a run otherwise
RECURSIVE ScrollGroups(_)
ScrollGroups(log) ==
    IF log = <<>> THEN <<>>
    ELSE LET prev == ScrollGroups(SubSeq(log, 1, Len(log) - 1))
             t == log[Len(log)]
             n == Len(prev)
         IN  IF n > 0 /\ t.at - prev[n].last_ts_ms <= ScrollGapTicks
             THEN [prev EXCEPT ![n] = [last_ts_ms |-> t.at,
                                       total_delta |-> prev[n].total_delta + t.delta,
                                       ticks |-> prev[n].ticks + 1]]
             ELSE Append(prev, [last_ts_ms |-> t.at, total_delta |-> t.delta, ticks |-> 1])

\* the mouse_scroll records sent so far
IsScroll(e) == e.type = "mouse_scroll"
ScrollEvents ==
    LET evs == SelectSeq(chan, IsScroll)
    IN  [i \in 1..Len(evs) |-> [last_ts_ms |-> evs[i].ts_mono_ms,
                                total_delta |-> evs[i].total_delta,
                                ticks |-> evs[i].ticks]]

ScrollLiveInit == PauseInit

\* the clock
ScrollTick == Tick /\ UNCHANGED outsideText

\* A wheel message comes while the clock of the behaviour still has the time
\* after it in which the aggregation goes quiet.
ScrollLiveNext ==
    \/ /\ now + ScrollGapTicks < MaxTime
       /\ \E delta \in WheelDeltas : MouseWheel(delta)
    \/ ScrollFlush
    \/ ScrollTick
    \/ PauseCommand
    \/ PauseWatcherPoll
    \/ CtrlC /\ UNCHANGED <<now, capacity, paused, outsideCore>>

\* The flusher thread sleeps 120 ms and looks at the buffer again, for as
\* long as shutdown is not set: a pass that stays possible is taken. Time
\* passes.
SpecScrollLive ==
    ScrollLiveInit /\ [][ScrollLiveNext]_vars /\ WF_vars(ScrollFlush) /\ WF_vars(ScrollTick)

\* the mouse_scroll record of the aggregation in the buffer
ScrollRecordOfBuffer ==
    [type |-> "mouse_scroll", ticks |-> scroll_buffer[1].ticks,
     total_delta |-> scroll_buffer[1].total_delta,
     ts_mono_ms |-> scroll_buffer[1].last_ts_ms]

\* C27: while the recorder runs, an aggregation in the scroll buffer leaves
\* it: sooner or later the buffer is empty (or shutdown has been set). The
\* buffer is emptied only by the flusher, in a step without a wheel message
\* and when the last tick is older than the gap, and an aggregation that
\* leaves the buffer is sent as one mouse_scroll record with its ticks and
\* its sum.
C27_QuietScrollEventuallyFlushed ==
    /\ (scroll_buffer # None) ~> (scroll_buffer = None \/ shutdown)
    /\ [][/\ (scroll_buffer # None /\ scroll_buffer' = None) =>
                 /\ wheelTicks' = wheelTicks
                 /\ ~shutdown
                 /\ now - scroll_buffer[1].last_ts_ms > ScrollGapTicks
                 /\ Accepted(chan, chan') = <<ScrollRecordOfBuffer>>
          /\ (/\ scroll_buffer # None /\ scroll_buffer' # None
              /\ scroll_buffer' # scroll_buffer
              /\ scroll_buffer'[1].ticks = 1) =>
                 Accepted(chan, chan') = <<ScrollRecordOfBuffer>>
         ]_vars

\* two wheel messages have been summed and, no third one coming, sent by the
\* flusher while the recorder was paused
C27_Witness ==
    /\ wheelTicks = 2
    /\ scroll_buffer = None
    /\ paused
    /\ ~shutdown
    /\ \E i \in 1..Len(queued) : IsScroll(queued[i]) /\ queued[i].ticks = 2

(***************************************************************************)
(* The pointer hook: mouse_hook_proc for moves, clicks and the wheel, with  *)
(* spawn_scroll_flush beside it                                            *)
(***************************************************************************)

\* WM_MOUSEMOVE messages of a behaviour
MaxMoves == 3
\* values of config.mouse_hz (normalize_config keeps it at 1 or more)
MouseHzValues == {1, 2, 3, 5}

\* what a mouse move leaves alone
pointerFrame == <<cfgVars, gateVars, now, capacity, paused, textVars, keyHistory, lockVars,
                 pauseVars, clipVars, winVars, dbVars, keyVars, watchVars, raceVars, mouse_hz,
                 mouse_move_interval_ms, shutdown, stopFile,
                 wmQuit, mainPc, watcherPc, writerPc, rxOpen, batch, stored, stopsIssued,
                 interrupts, hookEvents, flushFailed, writerLog, stopText, teardown,
                 recvStart, batchSince>>

\* a rate limit that lets every move pass
move_is_dropped_never(last, mono_ms, interval) == FALSE

\* mouse_hook_proc: if last >= 0 && mono_ms - last < state.mouse_move_interval_ms
move_is_dropped(last, mono_ms, interval) == last >= 0 /\ mono_ms - last < interval

\* mouse_hook_proc for WM_MOUSEMOVE
MouseMove ==
    /\ moveCount < MaxMoves
    /\ moveCount' = moveCount + 1
    /\ IF paused \/ move_is_dropped(last_mouse_move_ms, now, mouse_move_interval_ms)
       THEN UNCHANGED <<last_mouse_move_ms, chan, queued, hookLog>>
       ELSE /\ last_mouse_move_ms' = now
            /\ chan' = try_send(chan, [type |-> "mouse_move", ts_mono_ms |-> now])
            /\ queued' = queued \o Accepted(chan, chan')
            /\ hookLog' = hookLog \o Stamps(Accepted(chan, chan'))
    /\ UNCHANGED pointerFrame

PointerInit ==
    /\ allowlist_processes = <<>>
    /\ blocklist_processes = <<>>
    /\ safe_text_only = FALSE
    /\ capture_raw_keys = FALSE
    /\ GateIdle
    /\ TextIdle
    /\ StopIdle
    /\ LockIdle
    /\ PauseIdle
    /\ ClipIdle
    /\ WatchIdle
    /\ RaceIdle
    /\ DbIdle
    /\ KeyIdle
    /\ WinIdle
    /\ \E hz \in MouseHzValues : PointerStart(hz)

PointerNext ==
    \/ MouseMove
    \/ MouseHookProc
    \/ MouseWheel(WheelDelta)
    \/ ScrollFlush
    \/ Tick /\ UNCHANGED outsideText

SpecPointer == PointerInit /\ [][PointerNext]_vars

\* C22: the records the hook thread has put into the channel carry
\* monotonic timestamps in non-decreasing order.
C22_HookThreadTimestampsOrdered ==
    \A i, j \in 1..Len(hookLog) : i < j => hookLog[i] <= hookLog[j]

(***************************************************************************)
(* Mouse moves alone, with pauses                                          *)
(***************************************************************************)

MoveInit == PointerInit

MoveNext ==
    \/ MouseMove
    \/ PauseCommand
    \/ PauseWatcherPoll
    \/ Tick /\ UNCHANGED outsideText

SpecMove == MoveInit /\ [][MoveNext]_vars

IsMove(e) == e.type = "mouse_move"
\* the mouse_move records sent so far
MoveEvents == SelectSeq(chan, IsMove)

\* C28: two mouse_move events that follow one another are at least
\* mouse_move_interval_ms apart, the interval being one second divided by
\* mouse_hz (integer division); a move that arrives sooner after the last
\* emitted one sends nothing and leaves last_mouse_move_ms as it is.
C28_MovesRateLimited ==
    [][/\ mouse_move_interval_ms' = TicksPerSecond \div mouse_hz'
       /\ LET moves == SelectSeq(chan', IsMove)
          IN  /\ \A i \in 1..(Len(moves) - 1) :
                     moves[i + 1].ts_mono_ms - moves[i].ts_mono_ms >= mouse_move_interval_ms'
              /\ moves # <<>> => last_mouse_move_ms' = moves[Len(moves)].ts_mono_ms
       /\ (/\ moveCount' > moveCount
           /\ MoveEvents # <<>>
           /\ now - MoveEvents[Len(MoveEvents)].ts_mono_ms < mouse_move_interval_ms) =>
              /\ chan' = chan
              /\ last_mouse_move_ms' = last_mouse_move_ms
      ]_vars

\* a move has been emitted, a second one that came too soon has been dropped,
\* and a third one has been emitted after the interval
C28_Witness ==
    /\ moveCount = 3
    /\ Len(MoveEvents) = 2
    /\ mouse_move_interval_ms = 2
    /\ MoveEvents[2].ts_mono_ms - MoveEvents[1].ts_mono_ms = 2
    /\ ~paused

(***************************************************************************)
(* The storage file: init_db and insert_session at the start of run_writer, *)
(* flush_events after it                                                   *)
(***************************************************************************)

\* recorder runs on one storage file
MaxOpens == 3
\* events rows written per behaviour
MaxRows == 3

\* what the storage actions leave alone
dbFrame == <<cfgVars, gateVars, chanVars, textVars, keyHistory, stopVars, lockVars, pauseVars,
            clipVars, winVars, pointerVars, keyVars, watchVars, raceVars>>

\* the statements of init_db, in order
SchemaObjects ==
    << [kind |-> "table", name |-> "sessions"],
       [kind |-> "table", name |-> "events"],
       [kind |-> "index", name |-> "idx_events_session_time"],
       [kind |-> "index", name |-> "idx_events_session_type"] >>

\* a CREATE that does not look whether the object exists
create_always(objects, o) == Append(objects, o)

\* CREATE TABLE / INDEX IF NOT EXISTS
create_if_not_exists(objects, o) ==
    IF \E i \in 1..Len(objects) : objects[i].name = o.name THEN objects
    ELSE Append(objects, o)

RECURSIVE execute_batch(_, _)
execute_batch(objects, statements) ==
    IF statements = <<>> THEN objects
    ELSE execute_batch(create_if_not_exists(objects, Head(statements)), Tail(statements))

\* init_db(conn): the rows are not touched
init_db(d) == [d EXCEPT !.objects = execute_batch(d.objects, SchemaObjects)]

\* run_writer: Connection::open, init_db, insert_session
OpenDb ==
    /\ dbOpens < MaxOpens
    /\ dbOpens' = dbOpens + 1
    /\ db' = [init_db(db) EXCEPT !.sessions = Append(@, dbOpens + 1)]
    /\ UNCHANGED dbFrame

\* flush_events: a row of the running session
InsertEvent ==
    /\ dbOpens > 0
    /\ Len(db.events) < MaxRows
    /\ \E t \in {"mouse_click", "text_input"} :
           db' = [db EXCEPT !.events = Append(@, [session_id |-> dbOpens, event_type |-> t])]
    /\ UNCHANGED <<dbFrame, dbOpens>>

\* The file is new, or it is the file of a run that ended inside init_db:
\* the statements of the batch are committed one by one.
DbInit ==
    /\ allowlist_processes = <<>>
    /\ blocklist_processes = <<>>
    /\ safe_text_only = FALSE
    /\ capture_raw_keys = FALSE
    /\ GateIdle
    /\ TextIdle
    /\ StopIdle
    /\ LockIdle
    /\ PauseIdle
    /\ ClipIdle
    /\ WatchIdle
    /\ RaceIdle
    /\ KeyIdle
    /\ WinIdle
    /\ PointerIdle
    /\ \E n \in 0..Len(SchemaObjects) :
           db = [objects |-> SubSeq(SchemaObjects, 1, n), sessions |-> <<>>, events |-> <<>>]
    /\ dbOpens = 0

DbNext ==
    \/ OpenDb
    \/ InsertEvent

SpecDb == DbInit /\ [][DbNext]_vars

\* no two objects of the schema have the same name
NoDuplicateObjects(objects) ==
    \A i, j \in 1..Len(objects) : objects[i].name = objects[j].name => i = j

\* C23: init_db on a file that has the schema leaves the schema and the rows
\* as they are; on any file it leaves each table and index exactly once and
\* every sessions and events row in place.
C23_SchemaInitIdempotent ==
    [][/\ NoDuplicateObjects(db'.objects)
       /\ init_db(db').objects = db'.objects
       /\ init_db(init_db(db)) = init_db(db)
       /\ init_db(db).sessions = db.sessions
       /\ init_db(db).events = db.events
       /\ dbOpens' > dbOpens =>
              /\ db'.objects = SchemaObjects
              /\ db'.events = db.events
              /\ SubSeq(db'.sessions, 1, Len(db.sessions)) = db.sessions
      ]_vars

\* the file has been opened a second time with session and event rows in it
C23_Witness ==
    /\ dbOpens = 2
    /\ Len(db.sessions) = 2
    /\ \E i \in 1..Len(db.events) : db.events[i].session_id = 1
    /\ db.objects = SchemaObjects

(***************************************************************************)
(* The keyboard: keyboard_hook_proc with the pressed-key set, shortcuts    *)
(* and the marker hotkey                                                   *)
(***************************************************************************)

\* keyboard messages of a behaviour
MaxKeyEvents == 4

\* VK_CONTROL, VK_SHIFT, VK_MENU, VK_LWIN (left and right variants alike)
ModifierKeys == <<"Ctrl", "Shift", "Alt", "Win">>
\* the keys of the model's keyboard
KeyboardKeys == {"a", VK_0, "Ctrl", "Shift"}

\* is_modifier_key(vk)
is_modifier_key(vk) == \E i \in 1..Len(ModifierKeys) : ModifierKeys[i] = vk

\* current_modifiers(&pressed): the names of the modifiers held, in the
\* order Ctrl, Shift, Alt, Win
current_modifiers(pressed) ==
    LET F[i \in 0..Len(ModifierKeys)] ==
            IF i = 0 THEN <<>>
            ELSE IF ModifierKeys[i] \in pressed THEN Append(F[i - 1], ModifierKeys[i])
            ELSE F[i - 1]
    IN  F[Len(ModifierKeys)]

\* the key_shortcut record and the marker record
ShortcutEvent(vk, modifiers, is_repeat) ==
    [type |-> "key_shortcut", key |-> vk, modifiers |-> modifiers, repeat |-> is_repeat]
MarkerEvent(w) == [type |-> "marker", hotkey |-> "Ctrl+0", win |-> w]

\* what a keyboard message leaves alone
keyFrame == <<cfgVars, gateVars, now, capacity, paused, text_snapshot_on_idle, foreground,
             isPassword, uiaAvailable, lockVars, pauseVars, clipVars, winVars, pointerVars,
             dbVars, watchVars, raceVars, shutdown, stopFile, wmQuit, mainPc, watcherPc, writerPc, rxOpen, batch,
             stored, stopsIssued, interrupts, hookEvents, hookLog, flushFailed, writerLog,
             stopText, teardown, recvStart, batchSince>>

\* keyboard_hook_proc: if is_down && !is_modifier && !has_ctrl && !has_alt && !has_win
text_path_taken(is_down, vk, pressed) ==
    /\ is_down
    /\ ~is_modifier_key(vk)
    /\ "Ctrl" \notin pressed
    /\ "Alt" \notin pressed
    /\ "Win" \notin pressed

\* keyboard_hook_proc: is_marker_hotkey
is_marker_hotkey(is_down, was_pressed, vk, pressed) ==
    /\ is_down
    /\ ~was_pressed
    /\ vk = VK_0
    /\ "Ctrl" \in pressed
    /\ "Alt" \notin pressed
    /\ "Win" \notin pressed
    /\ "Shift" \notin pressed

\* keyboard_hook_proc past the pause test: the text buffer and the channel it
\* leaves, for the message (vk, is_down) and the pressed set after the
\* insert or remove
keyboard_hook_body(b0, vk, is_down, was_pressed, pressed) ==
    LET u == UiaNow
        modifiers == current_modifiers(pressed)
        is_chorded == ~is_modifier_key(vk) /\ modifiers # <<>>
        is_repeat == is_down /\ was_pressed
        b1 == IF is_down /\ is_chorded
              THEN [b0 EXCEPT !.out = try_send(b0.out, ShortcutEvent(vk, modifiers, is_repeat))]
              ELSE b0
        b2 == IF is_marker_hotkey(is_down, was_pressed, vk, pressed)
              THEN LET f == flush_text_buffer_with_window(b1, foreground, "marker", u)
                   IN  [f EXCEPT !.out = try_send(f.out, MarkerEvent(foreground))]
              ELSE b1
        b3 == IF text_path_taken(is_down, vk, pressed)
              THEN IF ~should_capture_text(allowlist_processes, blocklist_processes,
                                           safe_text_only, ProcessOf(foreground), u)
                   THEN flush_text_buffer_with_window(b2, foreground, "unsafe_target", u)
                   ELSE handle_text_key(b2, foreground, vk, u)
              ELSE b2
    IN  IF capture_raw_keys /\ is_down /\ ~is_chorded
        THEN [b3 EXCEPT !.out = try_send(b3.out, KeyDownEvent(vk))]
        ELSE b3

\* keyboard_hook_proc for one message: a key goes down (a press, or an
\* auto-repeat when it is down already) or a key that is down goes up
KeyboardMessage(vk, is_down) ==
    /\ keyCount < MaxKeyEvents
    /\ is_down \/ vk \in held
    /\ keyCount' = keyCount + 1
    /\ held' = IF is_down THEN held \cup {vk} ELSE held \ {vk}
    /\ lastKey' = [vk |-> vk, is_down |-> is_down, n |-> keyCount + 1]
    /\ IF paused
       THEN UNCHANGED <<pressed_keys, text, last_ts_ms, chan, queued>>
       ELSE LET pressed == IF is_down THEN pressed_keys \cup {vk} ELSE pressed_keys \ {vk}
                b == keyboard_hook_body([text |-> text, ts |-> last_ts_ms, out |-> chan], vk,
                                        is_down, vk \in pressed_keys, pressed)
            IN  /\ pressed_keys' = pressed
                /\ text' = b.text
                /\ last_ts_ms' = b.ts
                /\ chan' = b.out
                /\ queued' = queued \o Accepted(chan, b.out)
    /\ plainSpan' = FALSE
    /\ typedKeys' = <<>>
    /\ lastKeyTime' = 0
    /\ idlePolled' = FALSE
    /\ UNCHANGED <<keyFrame, fieldValue>>

KeyInit ==
    /\ allowlist_processes = <<>>
    /\ blocklist_processes = <<>>
    /\ safe_text_only = FALSE
    /\ capture_raw_keys = FALSE
    /\ GateIdle
    /\ TextIdle
    /\ StopIdle
    /\ OutsideCoreIdle

KeyNext ==
    \/ \E vk \in KeyboardKeys, is_down \in BOOLEAN : KeyboardMessage(vk, is_down)
    \/ PauseCommand
    \/ PauseWatcherPoll

SpecKey == KeyInit /\ [][KeyNext]_vars

\* the modifiers that are physically down
HeldModifiers == current_modifiers(held)

\* C24: while the recorder is not paused, a press of a non-modifier key with
\* at least one modifier down sends a key_shortcut record with the key and
\* the modifiers and adds nothing to the text buffer.
C24_ChordIsShortcutNotText ==
    [][(/\ keyCount' > keyCount
        /\ ~paused
        /\ lastKey'.is_down
        /\ ~is_modifier_key(lastKey'.vk)
        /\ HeldModifiers # <<>>) =>
           /\ \E i \in 1..Len(Accepted(chan, chan')) :
                 /\ Accepted(chan, chan')[i].type = "key_shortcut"
                 /\ Accepted(chan, chan')[i].key = lastKey'.vk
                 /\ Accepted(chan, chan')[i].modifiers = HeldModifiers
           /\ text' \in {text, <<>>}
      ]_vars

IsMarker(e) == e.type = "marker"
IsText(e) == e.type = "text_input"

\* C26: while the recorder is not paused, a press (not an auto-repeat) of 0
\* with Ctrl down and Shift, Alt and Win up empties the text buffer and sends
\* exactly one marker record and, when the buffer held text, exactly one
\* text_input record with that text before the marker.
C26_MarkerHotkeyFlushesThenMarks ==
    [][(/\ keyCount' > keyCount
        /\ ~paused
        /\ lastKey'.is_down
        /\ lastKey'.vk = VK_0
        /\ VK_0 \notin held
        /\ HeldModifiers = <<"Ctrl">>) =>
           LET sent == Accepted(chan, chan')
               texts == SelectSeq(sent, IsText)
           IN  /\ text' = <<>>
               /\ Len(SelectSeq(sent, IsMarker)) = 1
               /\ Len(texts) = (IF text = <<>> THEN 0 ELSE 1)
               /\ text # <<>> =>
                      /\ texts[1].text = text
                      /\ \E i, j \in 1..Len(sent) :
                            i < j /\ IsText(sent[i]) /\ IsMarker(sent[j])
      ]_vars

\* C31: whenever the recorder is not paused, the tracked set of pressed keys
\* is the set of keys that are down, whatever keys, pauses and resumes came
\* before; so the modifiers computed for a message are the modifiers that
\* are down.
C31_PressedKeysAreHeldKeys ==
    ~paused =>
        /\ pressed_keys = held
        /\ current_modifiers(pressed_keys) = HeldModifiers

(***************************************************************************)
(* Windows: win_event_proc, spawn_window_poll_loop, update_window_events   *)
(* and spawn_window_rect_flush_loop                                        *)
(***************************************************************************)

\* changes of the foreground window and of its rectangle in a behaviour
MaxWinChanges == 2
\* window events raised and not yet dispatched
MaxWinEvents == 2

\* what the window machinery leaves alone
winFrame == <<cfgVars, gateVars, now, capacity, paused, text_snapshot_on_idle, isPassword,
             uiaAvailable, fieldValue, keyHistory, lockVars, pauseVars, clipVars, pointerVars,
             dbVars, keyVars, watchVars, raceVars, shutdown,
             stopFile, wmQuit, mainPc, watcherPc, writerPc, rxOpen, batch, stored,
             stopsIssued, interrupts, hookEvents, flushFailed, writerLog, stopText, teardown,
             recvStart, batchSince>>

\* window_info_for_hwnd(hwnd): title, class and process are those of the
\* window, the rectangle is the one it has now
window_info_for_hwnd(hwnd) == [hwnd |-> hwnd, rect |-> rectOf[hwnd]]

\* send_active_window_changed / send_window_rect_changed: the record
WindowEvent(kind, info) == [type |-> kind, win |-> info.hwnd, window_rect |-> info.rect]

\* the recorder reads the rectangle of a window
Observe(w) ==
    [seen EXCEPT ![w] = IF seen[w].rect = rectOf[w] THEN @
                        ELSE [rect |-> rectOf[w], at |-> now]]

\* what is kept of a window_rect_changed record for the claims
RectLogEntry(info, observed, told) ==
    [hwnd |-> info.hwnd, rect |-> info.rect, at |-> now,
     seenRect |-> observed[info.hwnd].rect, seenAt |-> observed[info.hwnd].at,
     fgSeen |-> told]

\* update_window_events(state, hwnd, window_info) by the caller c, up to the
\* second locked section of the tracker
update_window_events(c, info, observed, told) ==
    LET hwnd == info.hwnd
        is_new == hwnd # window_tracker.last_hwnd
        rect_changed == is_new \/ Some(info.rect) # window_tracker.last_rect
        b0 == [text |-> text, ts |-> last_ts_ms, out |-> chan]
        b1 == IF is_new
              THEN flush_text_buffer_with_window(b0, hwnd, "window_change", UiaNow)
              ELSE b0
        out1 == IF is_new
                THEN try_send(b1.out, WindowEvent("active_window_changed", info))
                ELSE b1.out
        immediate == rect_changed /\ ~is_new /\ window_rect_debounce_ms <= 0
    IN  /\ window_tracker' =
               [last_hwnd |-> hwnd, last_rect |-> Some(info.rect),
                pending_rect |-> IF is_new THEN None ELSE window_tracker.pending_rect]
        /\ text' = b1.text
        /\ last_ts_ms' = b1.ts
        /\ chan' = IF immediate
                   THEN try_send(out1, WindowEvent("window_rect_changed", info))
                   ELSE out1
        /\ updPc' = [updPc EXCEPT ![c] =
                        IF rect_changed /\ ~is_new /\ window_rect_debounce_ms > 0
                        THEN Some([hwnd |-> hwnd, window_info |-> info,
                                   last_change_ms |-> now])
                        ELSE None]
        /\ changeFlushes' =
               IF is_new /\ text # <<>>
               THEN Append(changeFlushes, [carried |-> hwnd, typedIn |-> textWindow])
               ELSE changeFlushes
        /\ rectLog' = IF immediate
                      THEN Append(rectLog, RectLogEntry(info, observed, told))
                      ELSE rectLog
        /\ queued' = queued \o Accepted(chan, chan')
        /\ hookLog' = hookLog

\* update_window_events, the second locked section: the pending rectangle
UpdateWindowStore(c) ==
    /\ updPc[c] # None
    /\ window_tracker' = [window_tracker EXCEPT !.pending_rect = updPc[c]]
    /\ updPc' = [updPc EXCEPT ![c] = None]
    /\ UNCHANGED <<winFrame, foreground, rectOf, window_rect_debounce_ms, winEvents,
                   winChanges, seen, fgSeen, rectLog, textWindow, changeFlushes, text, last_ts_ms, chan,
                   queued, hookLog>>

\* another window comes to the front: EVENT_SYSTEM_FOREGROUND is raised
ForegroundChange(w) ==
    /\ winChanges < MaxWinChanges
    /\ Len(winEvents) < MaxWinEvents
    /\ w # foreground
    /\ foreground' = w
    /\ winEvents' = Append(winEvents, [event |-> "FOREGROUND", hwnd |-> w])
    /\ winChanges' = winChanges + 1
    /\ UNCHANGED <<winFrame, rectOf, window_rect_debounce_ms, window_tracker, updPc, seen,
                   fgSeen, rectLog, textWindow, changeFlushes, text, last_ts_ms, chan, queued, hookLog>>

\* the foreground window is moved or resized: EVENT_OBJECT_LOCATIONCHANGE
RectChange(r) ==
    /\ winChanges < MaxWinChanges
    /\ Len(winEvents) < MaxWinEvents
    /\ rectOf[foreground] # r
    /\ rectOf' = [rectOf EXCEPT ![foreground] = r]
    /\ winEvents' = Append(winEvents, [event |-> "LOCATIONCHANGE", hwnd |-> foreground])
    /\ winChanges' = winChanges + 1
    /\ UNCHANGED <<winFrame, foreground, window_rect_debounce_ms, window_tracker, updPc,
                   seen, fgSeen, rectLog, textWindow, changeFlushes, text, last_ts_ms, chan, queued, hookLog>>

\* win_event_proc: the message loop dispatches the next window event
WinEventProc ==
    /\ winEvents # <<>>
    /\ updPc["hook"] = None
    /\ LET e == Head(winEvents)
           told == IF e.event = "FOREGROUND" THEN e.hwnd ELSE fgSeen
       IN  /\ winEvents' = Tail(winEvents)
           /\ fgSeen' = told
           /\ IF paused \/ (e.event = "LOCATIONCHANGE" /\ e.hwnd # foreground)
              THEN UNCHANGED <<window_tracker, text, last_ts_ms, chan, updPc, changeFlushes,
                               rectLog, seen, queued, hookLog>>
              ELSE /\ seen' = Observe(e.hwnd)
                   /\ update_window_events("hook", window_info_for_hwnd(e.hwnd),
                                           Observe(e.hwnd), told)
    /\ UNCHANGED <<winFrame, foreground, rectOf, window_rect_debounce_ms, winChanges,
                   textWindow>>

\* spawn_window_poll_loop, one pass of the loop: poll_active_window
WindowPoll ==
    /\ ~shutdown
    /\ ~paused
    /\ updPc["poll"] = None
    /\ seen' = Observe(foreground)
    /\ fgSeen' = foreground
    /\ update_window_events("poll", window_info_for_hwnd(foreground), Observe(foreground),
                            foreground)
    /\ UNCHANGED <<winFrame, foreground, rectOf, window_rect_debounce_ms, winEvents,
                   winChanges, textWindow>>

\* spawn_window_rect_flush_loop, one pass of the loop
RectFlush ==
    /\ ~shutdown
    /\ ~paused
    /\ window_rect_debounce_ms > 0
    /\ window_tracker.pending_rect # None
    /\ LET pending == window_tracker.pending_rect[1]
       IN  /\ now - pending.last_change_ms >= window_rect_debounce_ms
           /\ window_tracker' = [window_tracker EXCEPT !.pending_rect = None]
           /\ IF window_tracker.last_hwnd # pending.hwnd
              THEN UNCHANGED <<chan, rectLog, queued, hookLog>>
              ELSE /\ chan' = try_send(chan, WindowEvent("window_rect_changed",
                                                         pending.window_info))
                   /\ rectLog' = Append(rectLog,
                                        RectLogEntry(pending.window_info, seen, fgSeen))
                   /\ queued' = queued \o Accepted(chan, chan')
                   /\ hookLog' = hookLog
    /\ UNCHANGED <<winFrame, foreground, rectOf, window_rect_debounce_ms, winEvents, updPc,
                   winChanges, seen, fgSeen, textWindow, changeFlushes, text, last_ts_ms>>

\* keyboard_hook_proc of a recorder that is not paused, for the key "a"
WindowKey ==
    /\ keyCount < MaxPauseKeys
    /\ KeyboardHookProc("a")
    /\ textWindow' = foreground
    /\ queued' = queued \o Accepted(chan, chan')
    /\ hookLog' = hookLog
    /\ UNCHANGED <<lockVars, pauseVars, clipVars, pointerVars, dbVars, keyVars, watchVars, raceVars,
                   shutdown, stopFile, wmQuit, mainPc,
                   watcherPc, writerPc, rxOpen, batch, stored, stopsIssued, interrupts,
                   hookEvents, flushFailed, writerLog, stopText, teardown, recvStart, batchSince, rectOf,
                   window_rect_debounce_ms,
                   window_tracker, winEvents, updPc, winChanges, seen, fgSeen, rectLog,
                   changeFlushes>>

WinInit ==
    /\ allowlist_processes = <<>>
    /\ blocklist_processes = <<>>
    /\ safe_text_only = FALSE
    /\ capture_raw_keys = FALSE
    /\ GateIdle
    /\ TextIdle
    /\ StopIdle
    /\ LockIdle
    /\ PauseIdle
    /\ ClipIdle
    /\ WatchIdle
    /\ RaceIdle
    /\ PointerIdle
    /\ DbIdle
    /\ KeyIdle
    /\ \E d \in {0, RectDebounceTicks} : WinStart(d)

WinNext ==
    \/ \E w \in Windows : ForegroundChange(w)
    \/ \E r \in Rects : RectChange(r)
    \/ WinEventProc
    \/ WindowPoll
    \/ \E c \in Callers : UpdateWindowStore(c)
    \/ RectFlush
    \/ PauseCommand
    \/ PauseWatcherPoll
    \/ WindowKey
    \/ Tick /\ UNCHANGED outsideText

SpecWin == WinInit /\ [][WinNext]_vars

(***************************************************************************)
(* Window claims (SpecWin)                                                 *)
(***************************************************************************)

\* the text_input records flushed by a change of the foreground window
IsWindowChangeText(e) == e.type = "text_input" /\ e.reason = "window_change"

\* C12: with a debounce interval, every window_rect_changed event carries the
\* rectangle the recorder last read for its window (the final rectangle of
\* the burst), is sent only when that rectangle has been unchanged for the
\* debounce interval, and is the only event of its burst: a later event for
\* the same window follows a later change of its rectangle.
C12_OneEventWithFinalRect ==
    window_rect_debounce_ms > 0 =>
        /\ \A i \in DOMAIN rectLog :
               /\ rectLog[i].rect = rectLog[i].seenRect
               /\ rectLog[i].at - rectLog[i].seenAt >= window_rect_debounce_ms
        /\ \A i, j \in DOMAIN rectLog :
               (i < j /\ rectLog[i].hwnd = rectLog[j].hwnd) =>
                   rectLog[j].seenAt >= rectLog[i].at

\* C13: every window_rect_changed event is for the window that is the
\* foreground window the recorder was last told of when the event is sent; a
\* pending rectangle of a window that has left the foreground is never sent.
C13_RectEventOnlyForForeground ==
    \A i \in DOMAIN rectLog : rectLog[i].hwnd = rectLog[i].fgSeen

\* C14: a text record flushed because the foreground window changed carries
\* the window that was in front before the change, in which the text was
\* typed.
C14_TextCarriesPreviousWindow ==
    /\ Len(SelectSeq(chan, IsWindowChangeText)) = Len(changeFlushes)
    /\ \A i \in DOMAIN changeFlushes :
           /\ SelectSeq(chan, IsWindowChangeText)[i].win = changeFlushes[i].carried
           /\ changeFlushes[i].carried = changeFlushes[i].typedIn

(***************************************************************************)
(* Shutdown with open buffers: the shutdown path together with             *)
(* spawn_scroll_flush and spawn_window_rect_flush_loop                     *)
(***************************************************************************)

\* The recorder is running; at clock 0 the wheel was turned one notch and the
\* foreground window W1 was moved to r2: the scroll buffer holds the
\* aggregation and the tracker holds the pending rectangle.
DrainInit ==
    /\ StopStart
    /\ LockIdle
    /\ ClipIdle
    /\ WatchIdle
    /\ RaceIdle
    /\ PointerIdle
    /\ DbIdle
    /\ KeyIdle
    /\ pauseFile = FALSE
    /\ last_paused = FALSE
    /\ scroll_buffer = Some([last_ts_ms |-> 0, total_delta |-> WheelDelta, ticks |-> 1])
    /\ pauseCommands = 0
    /\ wheelTicks = 1
    /\ tickLog = << [at |-> 0, delta |-> WheelDelta] >>
    /\ snapshots = 0
    /\ pausedSends = {}
    /\ rectOf = [w \in Windows |-> IF w = "W1" THEN "r2" ELSE "r1"]
    /\ window_rect_debounce_ms = RectDebounceTicks
    /\ window_tracker =
           [last_hwnd |-> "W1", last_rect |-> Some("r2"),
            pending_rect |-> Some([hwnd |-> "W1",
                                   window_info |-> [hwnd |-> "W1", rect |-> "r2"],
                                   last_change_ms |-> 0])]
    /\ winEvents = <<>>
    /\ updPc = [c \in Callers |-> None]
    /\ winChanges = 1
    /\ seen = [w \in Windows |-> [rect |-> IF w = "W1" THEN "r2" ELSE "r1", at |-> 0]]
    /\ fgSeen = "W1"
    /\ rectLog = <<>>
    /\ textWindow = NoWindow
    /\ changeFlushes = <<>>

DrainNext ==
    \/ StopCommand
    \/ CtrlC
    \/ StopWatcherPoll
    \/ StopWatcherFlush
    \/ StopWatcherSignal
    \/ MainGetMessage
    \/ MainFlush
    \/ MainSessionStop
    \/ MainJoin
    \/ WriterRecv
    \/ WriterTimeout
    \/ WriterCheck
    \/ WriterReturn
    \/ ScrollFlush
    \/ RectFlush

SpecDrain == DrainInit /\ [][DrainNext]_vars

\* C18: when the process has exited after a coordinated shutdown, no buffer
\* is left open: the text buffer, the scroll buffer and the pending rectangle
\* have each been emitted and are empty.
C18_OpenBuffersFlushed ==
    mainPc = "exit" =>
        /\ text = <<>>
        /\ scroll_buffer = None
        /\ window_tracker.pending_rect = None

(***************************************************************************)
(* A full channel: the producers and the writer on a channel of small      *)
(* capacity                                                                *)
(***************************************************************************)

\* the capacity of the channel (20000), scaled
SmallCapacity == 2

FullInit ==
    /\ allowlist_processes = <<>>
    /\ blocklist_processes = <<>>
    /\ safe_text_only = FALSE
    /\ capture_raw_keys = TRUE
    /\ GateIdle
    /\ TextIdleWith(SmallCapacity)
    /\ StopIdle
    /\ LockIdle
    /\ PauseIdle
    /\ ClipIdle
    /\ LaterIdle

FullNext ==
    \/ PauseCommand
    \/ PauseWatcherPoll
    \/ MouseHookProc
    \/ PausableKey
    \/ WriterRecv
    \/ WriterTimeout
    \/ WriterCheck

SpecFull == FullInit /\ [][FullNext]_vars

\* the step is one of the writer thread
IsWriterStep == writerPc' # writerPc \/ batch' # batch \/ stored' # stored

\* C19: the channel never holds more records than its capacity; a step of a
\* producer appends the records it sends while there is room and drops the
\* rest: on a full channel it leaves the channel as it is, and in every case
\* the producer completes its step.
C19_SendsNeverBlockNorOverfill ==
    [][/\ Len(chan') <= capacity
       /\ ~IsWriterStep =>
              /\ Len(chan') >= Len(chan)
              /\ SubSeq(chan', 1, Len(chan)) = chan
              /\ queued' = queued \o Accepted(chan, chan')
              /\ Len(chan) = capacity => chan' = chan
       /\ (Len(chan) = capacity /\ ~paused /\ hookEvents < MaxHookEvents) =>
              ENABLED MouseHookProc]_vars

IsClick(e) == e.type = "mouse_click"

\* the pointer hook has run on a full channel: its record was dropped, the
\* hook has completed, the channel is full
C19_Witness ==
    /\ Len(chan) = capacity
    /\ Len(SelectSeq(queued, IsClick)) < hookEvents

(***************************************************************************)
(* The writer and the clock: run_writer with the time recv_timeout waits   *)
(***************************************************************************)

\* run_writer's flush_interval (250 ms), in ticks
FlushTicks == 2

\* recv_timeout returns Err(Timeout) when nothing has arrived for the flush
\* interval
WriterTimeoutElapsed ==
    /\ now - recvStart >= FlushTicks
    /\ WriterTimeout

\* the writer has a step to take at this instant: a record to receive, a
\* timeout that has expired, the check after a timeout
WriterDue ==
    \/ writerPc = "check"
    \/ writerPc = "recv" /\ chan # <<>>
    \/ writerPc = "recv" /\ chan = <<>> /\ now - recvStart >= FlushTicks

\* the clock advances when the writer has nothing to do at this instant
WriterTick ==
    /\ ~WriterDue
    /\ Tick
    /\ UNCHANGED outsideText

WriterInit ==
    /\ allowlist_processes = <<>>
    /\ blocklist_processes = <<>>
    /\ safe_text_only = FALSE
    /\ capture_raw_keys = FALSE
    /\ GateIdle
    /\ TextIdle
    /\ StopIdle
    /\ OutsideCoreIdle

WriterNext ==
    \/ MouseHookProc
    \/ WriterRecv
    \/ WriterTimeoutElapsed
    \/ WriterCheck
    \/ WriterTick

SpecWriter == WriterInit /\ [][WriterNext]_vars

\* C20: a record the writer has received does not stay in the batch for
\* longer than the flush interval.
C20_BatchWrittenWithinInterval ==
    batchSince # None => now - batchSince[1] <= FlushTicks

(***************************************************************************)
(* The keyboard hook in front of the privacy gate: keys pressed in a       *)
(* blocked process (W2) or in a password field under safe_text_only        *)
(***************************************************************************)

\* the keys pressed: two character keys and a modifier
DeniedKeys == {"a", "é", "Shift"}

\* The recorder has just started with the default capture_raw_keys = true;
\* the process of W2 is on the blocklist.
DeniedInit ==
    /\ allowlist_processes = <<>>
    /\ blocklist_processes = << <<"b">> >>
    /\ safe_text_only \in BOOLEAN
    /\ capture_raw_keys = TRUE
    /\ GateIdle
    /\ TextIdle
    /\ StopIdle
    /\ OutsideCoreIdle

DeniedNext ==
    \/ \E vk \in DeniedKeys, is_down \in BOOLEAN : KeyboardMessage(vk, is_down)
    \/ TogglePassword /\ UNCHANGED outsideText
    \/ \E w \in Windows : ForegroundChange(w)
    \/ WinEventProc

SpecDenied == DeniedInit /\ [][DeniedNext]_vars

\* the gate denies the capture of text in the window in front
CaptureDenied ==
    ~should_capture_text(allowlist_processes, blocklist_processes, safe_text_only,
                         ProcessOf(foreground), UiaNow)

\* what the hook would have sent and kept, had the key of the step been the
\* character key vk, everything else alike
HookWith(vk) ==
    keyboard_hook_body([text |-> text, ts |-> last_ts_ms, out |-> chan], vk, TRUE,
                       lastKey'.vk \in pressed_keys,
                       (pressed_keys \ {lastKey'.vk}) \cup {vk})

\* C32: while the gate denies capture, the press of a character key sends
\* the same records, and leaves the same text buffer, as the press of any
\* other character key in its place: nothing sent identifies the key.
C32_DeniedKeyNotIdentified ==
    [][(/\ keyCount' > keyCount
        /\ lastKey'.is_down
        /\ lastKey'.vk \in CharKeys
        /\ CaptureDenied) =>
           \A vk \in CharKeys : HookWith(vk).out = chan' /\ HookWith(vk).text = text'
      ]_vars

(***************************************************************************)
(* The flush triggers of the text buffer: keys, the marker hotkey, a       *)
(* window change, pause, the stop signal and the end of the session        *)
(***************************************************************************)

\* inputs of a behaviour with all triggers: keyboard messages, changes of
\* the foreground window, pause and stop commands
MaxFlushInputs == 3
\* the keys pressed: a character, Enter, Tab, and the marker hotkey
FlushKeys == {"a", VK_RETURN, VK_TAB, "Ctrl", VK_0}

\* The recorder is running; the text buffer is empty or holds "aé", fresh or
\* stale.
FlushInit == StopInit

\* the inputs so far
FlushInputs == keyCount + winChanges + pauseCommands + stopsIssued

\* the hooks run on the message loop of run_recorder
FlushNext ==
    \/ /\ mainPc = "loop"
       /\ FlushInputs < MaxFlushInputs
       /\ \E vk \in FlushKeys : KeyboardMessage(vk, TRUE)
    \/ /\ mainPc = "loop"
       /\ FlushInputs < MaxFlushInputs
       /\ \E w \in Windows : ForegroundChange(w)
    \/ mainPc = "loop" /\ WinEventProc
    \/ FlushInputs < MaxFlushInputs /\ PauseCommand
    \/ PauseWatcherPoll
    \/ FlushInputs < MaxFlushInputs /\ StopCommand
    \/ StopWatcherPoll
    \/ StopWatcherFlush
    \/ StopWatcherSignal
    \/ MainGetMessage
    \/ MainFlush

SpecFlush == FlushInit /\ [][FlushNext]_vars

\* the reasons a text_input record can carry
FlushReasons == {"idle_timeout", "timeout", "enter", "tab", "max_len", "window_change",
                 "unsafe_target", "marker", "pause", "stop_signal", "session_end"}

\* the flush with the given reason, applied to the text buffer as it is
FlushApplied(reason) ==
    flush_text_buffer_with_window([text |-> text, ts |-> last_ts_ms, out |-> chan],
                                  foreground, reason, UiaNow)

\* the text_input records the step has put into the channel
TextSent == SelectSeq(Accepted(chan, chan'), IsText)

\* the step is a flush trigger with this reason: the pause watcher pauses,
\* the stop watcher has taken the stop signal, the main thread ends the
\* session, the window tracker takes another window, the marker is sent,
\* Enter or Tab reaches the text path
IsTrigger(reason) ==
    CASE reason = "pause" -> ~paused /\ paused'
      [] reason = "stop_signal" -> watcherPc = "stop_flush" /\ watcherPc' = "signal"
      [] reason = "session_end" -> mainPc = "session_end" /\ mainPc' = "session_stop"
      [] reason = "window_change" -> window_tracker'.last_hwnd # window_tracker.last_hwnd
      [] reason = "marker" -> \E i \in 1..Len(Accepted(chan, chan')) :
                                  IsMarker(Accepted(chan, chan')[i])
      [] reason \in {"enter", "tab"} ->
             /\ keyCount' > keyCount
             /\ ~paused
             /\ lastKey'.vk = (IF reason = "enter" THEN VK_RETURN ELSE VK_TAB)
             /\ "Ctrl" \notin pressed_keys
      [] OTHER -> FALSE

\* the reasons the record of a trigger may carry: a stale buffer is flushed
\* as timed out, and a buffer typed into a window that must not be captured
\* as unsafe, before Enter or Tab is looked at
ReasonsOf(reason) ==
    IF reason \in {"enter", "tab"} THEN {reason, "timeout", "unsafe_target"} ELSE {reason}

\* C25: a flush, whatever its reason, applied to a non-empty text buffer
\* sends exactly one text_input record with the whole buffer and that reason
\* and leaves the buffer empty; applied to an empty buffer it sends nothing.
\* Each trigger step does just that, and no step sends more than one
\* text_input record or a record with anything but the buffer (with the
\* character just typed, when the maximum length is reached).
C25_FlushEmitsWholeBufferOnce ==
    /\ [](\A reason \in FlushReasons :
             LET r == FlushApplied(reason)
                 sent == Accepted(chan, r.out)
             IN  /\ r.text = <<>>
                 /\ IF text = <<>> THEN r.out = chan
                    ELSE /\ Len(sent) = 1
                         /\ IsText(sent[1])
                         /\ sent[1].text = text
                         /\ sent[1].reason = reason
                 /\ IF IsStale([text |-> text, ts |-> last_ts_ms, out |-> chan])
                    THEN flush_text_buffer_if_stale_with_window(
                             [text |-> text, ts |-> last_ts_ms, out |-> chan], foreground,
                             reason, UiaNow) = r
                    ELSE TRUE)
    /\ [][/\ Len(TextSent) <= 1
          /\ TextSent # <<>> =>
                 /\ text # <<>>
                 /\ \/ TextSent[1].text = text
                    \/ /\ TextSent[1].reason = "max_len"
                       /\ Len(TextSent[1].text) = Len(text) + 1
                       /\ SubSeq(TextSent[1].text, 1, Len(text)) = text
          /\ \A reason \in FlushReasons :
                 IsTrigger(reason) =>
                     /\ text' = <<>>
                     /\ IF text = <<>> THEN TextSent = <<>>
                        ELSE /\ Len(TextSent) = 1
                             /\ TextSent[1].text = text
                             /\ TextSent[1].reason \in ReasonsOf(reason)
         ]_vars

\* the text "aé" has been flushed by the marker hotkey, and the pause that
\* followed has found the buffer empty and sent no text
C25_Witness ==
    /\ paused
    /\ text = <<>>
    /\ Len(SelectSeq(queued, IsText)) = 1
    /\ \E i \in 1..Len(queued) :
          /\ IsText(queued[i])
          /\ queued[i].reason = "marker"
          /\ Chars(queued[i].text) = <<"a", "é">>

(***************************************************************************)
(* Clipboard: spawn_clipboard_loop, read_clipboard_event and the copies    *)
(* made by other programs                                                  *)
(***************************************************************************)

\* config.clipboard_debounce_ms, in ticks
DebounceTicks == 1
\* config.clipboard_dedupe_window_ms, in ticks
DedupeTicks == 2
\* clipboard changes of a behaviour
MaxCopies == 2

\* what a program can put on the clipboard: nothing the recorder reads, a
\* text, a file list, an image, an image together with a text
Contents ==
    { NoContent,
      [image |-> None, files |-> None, text |-> Some(<<"x">>)],
      [image |-> None, files |-> Some("f"), text |-> None],
      [image |-> Some("x"), files |-> None, text |-> None],
      [image |-> Some("y"), files |-> None, text |-> Some(<<"x">>)] }

\* hash_bytes of the image bytes
hash_bytes(bytes) == IF bytes = "x" THEN 1 ELSE 2

\* what the clipboard machinery leaves alone
clipFrame == <<cfgVars, gateVars, capacity, paused, textVars, keyHistory, stopVars, lockVars,
              pauseVars, laterVars>>

\* should_skip_clipboard_hash(state, hash): the answer and the new
\* state.last_clipboard_hash
should_skip_clipboard_hash(last, hash) ==
    IF last # None /\ last[1].hash = hash /\ now - last[1].ts_ms <= DedupeTicks
    THEN [skip |-> TRUE, last |-> last]
    ELSE [skip |-> FALSE, last |-> Some([hash |-> hash, ts_ms |-> now])]

\* build_clipboard_event
ClipboardEvent(kind, data) == [type |-> kind, data |-> data, ts |-> now, win |-> foreground]

\* read_clipboard_event_locked: image, then file list, then text
read_clipboard_event_locked(content, last) ==
    IF content.image # None
    THEN LET r == should_skip_clipboard_hash(last, hash_bytes(content.image[1]))
         IN  IF r.skip THEN [event |-> None, last |-> r.last]
             ELSE [event |-> Some(ClipboardEvent("clipboard_image", content.image[1])),
                   last |-> r.last]
    ELSE IF content.files # None
    THEN [event |-> Some(ClipboardEvent("clipboard_files", content.files[1])), last |-> last]
    ELSE IF content.text # None /\ content.text[1] # <<>>
    THEN [event |-> Some(ClipboardEvent("clipboard_text",
                                        truncate_text(content.text[1], MaxTextLen))),
          last |-> last]
    ELSE [event |-> None, last |-> last]

\* read_clipboard_event: the gate, OpenClipboard, the read
read_clipboard_event(openOk) ==
    IF ~should_capture_clipboard(allowlist_processes, blocklist_processes,
                                 ProcessOf(foreground))
    THEN [event |-> None, last |-> last_clipboard_hash]
    ELSE IF ~openOk THEN [event |-> None, last |-> last_clipboard_hash]
    ELSE read_clipboard_event_locked(clipContent, last_clipboard_hash)

\* mutant of debounce_elapsed: the clipboard is read as soon as a change is seen
debounce_elapsed_at_once(since) == TRUE

\* since.elapsed() >= debounce
debounce_elapsed(since) == now - since >= DebounceTicks

\* a program changes the clipboard
Copy(content) ==
    /\ clipSeq < MaxCopies
    /\ clipSeq' = clipSeq + 1
    /\ clipContent' = content
    /\ lastCopyAt' = now
    /\ copiedPaused' = paused
    /\ UNCHANGED <<clipFrame, now, chan, last_seq, pending_since, last_clipboard_hash, readLog>>

\* spawn_clipboard_loop, one pass of the loop
ClipboardPoll(openOk) ==
    /\ ~shutdown
    /\ ~paused
    /\ LET changed == clipSeq # last_seq
           since == IF changed THEN Some(now) ELSE pending_since
       IN  /\ last_seq' = clipSeq
           /\ IF since # None /\ debounce_elapsed(since[1])
              THEN LET r == read_clipboard_event(openOk)
                   IN  /\ chan' = IF r.event # None THEN try_send(chan, r.event[1]) ELSE chan
                       /\ last_clipboard_hash' = r.last
                       /\ pending_since' = None
                       /\ readLog' = Append(readLog,
                                            [seq |-> clipSeq, at |-> now,
                                             changedAt |-> lastCopyAt,
                                             process |-> ProcessOf(foreground),
                                             openOk |-> openOk,
                                             content |-> clipContent,
                                             last |-> last_clipboard_hash,
                                             sent |-> Len(chan') - Len(chan)])
              ELSE /\ pending_since' = since
                   /\ UNCHANGED <<chan, last_clipboard_hash, readLog>>
    /\ UNCHANGED <<clipFrame, now, clipSeq, clipContent, lastCopyAt, copiedPaused>>

ClipInit ==
    /\ allowlist_processes = <<>>
    /\ blocklist_processes = << <<"b">> >>
    /\ safe_text_only = TRUE
    /\ capture_raw_keys = FALSE
    /\ GateIdle
    /\ now = 0
    /\ chan = <<>>
    /\ capacity = CHANNEL_CAPACITY
    /\ paused = FALSE
    /\ text_snapshot_on_idle = FALSE
    /\ text = <<>>
    /\ last_ts_ms = 0
    /\ foreground \in Windows
    /\ isPassword = FALSE
    /\ uiaAvailable = TRUE
    /\ fieldValue = <<>>
    /\ keyCount = 0
    /\ plainSpan = FALSE
    /\ typedKeys = <<>>
    /\ lastKeyTime = 0
    /\ idlePolled = FALSE
    /\ StopIdle
    /\ LockIdle
    /\ PauseIdle
    /\ ClipIdle
    /\ LaterIdle

ClipNext ==
    \/ \E content \in Contents : Copy(content)
    \/ \E openOk \in BOOLEAN : ClipboardPoll(openOk)
    \/ Tick /\ UNCHANGED outsideText

SpecClip == ClipInit /\ [][ClipNext]_vars

\* the clipboard loop of a recorder that is paused and resumed
ClipPauseNext ==
    \/ \E content \in Contents : Copy(content)
    \/ \E openOk \in BOOLEAN : ClipboardPoll(openOk)
    \/ Tick /\ UNCHANGED outsideText
    \/ PauseCommand
    \/ PauseWatcherPoll

SpecClipPause == ClipInit /\ [][ClipPauseNext]_vars

\* C39: a pass of the clipboard loop sends no record of a content that was
\* put on the clipboard while the recorder was paused.
C39_NothingCopiedWhilePausedIsRecorded ==
    [][(readLog' # readLog /\ readLog'[Len(readLog')].sent > 0) => ~copiedPaused]_vars

(***************************************************************************)
(* Clipboard claims (SpecClip)                                             *)
(***************************************************************************)

ClipEvents ==
    SelectSeq(chan, LAMBDA e : e.type \in {"clipboard_image", "clipboard_files",
                                           "clipboard_text"})

\* C9: no two clipboard events of the same type and content are emitted
\* within the dedupe window of each other, whatever the content type.
C9_NoDuplicateWithinWindow ==
    \A i, j \in 1..Len(ClipEvents) :
        (i < j /\ ClipEvents[i].type = ClipEvents[j].type
               /\ ClipEvents[i].data = ClipEvents[j].data)
            => ClipEvents[j].ts - ClipEvents[i].ts > DedupeTicks

\* the process gate permits the foreground process of the read
ReadPermitted(r) ==
    /\ ~BaseNameOnList(blocklist_processes, r.process)
    /\ allowlist_processes # <<>> => BaseNameOnList(allowlist_processes, r.process)

\* the clipboard held an image, a file list or a non-empty text
ReadSupported(r) ==
    \/ r.content.image # None
    \/ r.content.files # None
    \/ r.content.text # None /\ r.content.text[1] # <<>>

\* the clipboard held an image with the hash of the image emitted last, not
\* longer ago than the dedupe window
ReadDuplicateImage(r) ==
    /\ r.content.image # None
    /\ r.last # None
    /\ r.last[1].hash = hash_bytes(r.content.image[1])
    /\ r.at - r.last[1].ts_ms <= DedupeTicks

ReadKind(r) ==
    IF r.content.image # None THEN "clipboard_image"
    ELSE IF r.content.files # None THEN "clipboard_files"
    ELSE "clipboard_text"

RECURSIVE SentUpTo(_)
SentUpTo(k) == IF k = 0 THEN 0 ELSE SentUpTo(k - 1) + readLog[k].sent

MaxReloads == 2

\* what the config-reload watcher and its environment leave alone
watchFrame == <<cfgVars, gateVars, chanVars, textVars, keyHistory, stopVars, lockVars,
               pauseVars, clipVars, winVars, pointerVars, dbVars, keyVars, raceVars>>

\* what config.json may be: the default, all pointer records on and
\* safe_text_only off, all off, a file that does not parse, no file
FlagSets == {DefaultConfig,
             [DefaultConfig EXCEPT !.move = TRUE, !.scroll = TRUE, !.safe_text_only = FALSE],
             [DefaultConfig EXCEPT !.click = FALSE],
             [DefaultConfig EXCEPT !.valid = FALSE],
             [DefaultConfig EXCEPT !.exists = FALSE]}

\* config.json is edited
EditConfig(flags) ==
    /\ flags # config_flags
    /\ config_flags' = flags
    /\ UNCHANGED <<watchFrame, reloadFile, reloadRequests, reloadsSeen, capture_flags, exited>>

\* reload_config.signal is written
ReloadRequest ==
    /\ reloadRequests < MaxReloads
    /\ reloadRequests' = reloadRequests + 1
    /\ reloadFile' = TRUE
    /\ UNCHANGED <<watchFrame, reloadsSeen, config_flags, capture_flags, exited>>

\* load_or_create_config: the file is read and parsed, an error if that
\* fails; a missing file is written with the defaults
load_or_create_config(file) ==
    IF ~file.exists THEN [file |-> DefaultConfig, result |-> Some(DefaultConfig)]
    ELSE IF file.valid THEN [file |-> file, result |-> Some(file)]
    ELSE [file |-> file, result |-> None]

\* an apply_capture_flags that takes over emit_mouse_move only
apply_capture_flags_move_only(flags, config) == [flags EXCEPT !.move = config.move]

\* apply_capture_flags(state, config)
apply_capture_flags(flags, config) ==
    [move |-> config.move, click |-> config.click, scroll |-> config.scroll]

\* spawn_config_reload_watcher, one pass of the loop that finds the file: the
\* file is removed, then the config is loaded and, if that succeeds, applied
ReloadWatcherPoll ==
    /\ ~shutdown
    /\ reloadFile
    /\ reloadFile' = remove_file(reloadFile)
    /\ reloadsSeen' = reloadsSeen + 1
    /\ LET loaded == load_or_create_config(config_flags)
       IN  /\ config_flags' = loaded.file
           /\ capture_flags' = IF loaded.result # None
                                THEN apply_capture_flags(capture_flags, loaded.result[1])
                                ELSE capture_flags
    /\ UNCHANGED <<watchFrame, reloadRequests, exited>>

SignalInit == PauseInit

SignalNext ==
    \/ StopCommand
    \/ StopWatcherPoll
    \/ StopWatcherFlush
    \/ StopWatcherSignal
    \/ PauseCommand
    \/ PauseWatcherPoll
    \/ ReloadRequest
    \/ \E flags \in FlagSets : EditConfig(flags)
    \/ ReloadWatcherPoll

SpecSignal == SignalInit /\ [][SignalNext]_vars

\* the stop watcher takes the stop signal
StopTaken == watcherPc = "loop" /\ watcherPc' = "stop_flush"
\* the reload watcher takes the reload signal
ReloadTaken == reloadsSeen' # reloadsSeen
\* the pause watcher takes the pause signal, or its removal
PauseTaken == last_paused' # last_paused

RunningSettings ==
    <<allowlist_processes, blocklist_processes, safe_text_only, capture_raw_keys,
      text_snapshot_on_idle, window_rect_debounce_ms, mouse_hz, mouse_move_interval_ms,
      capacity>>

\* C38: a step that acts on reload_config.signal leaves every setting of
\* the running recorder as it is, the three pointer flags excepted; these
\* take the values of config.json (of the defaults when there is no file),
\* and stay as they are when the file does not parse.
C38_ReloadChangesOnlyPointerFlags ==
    [][ReloadTaken =>
          /\ UNCHANGED RunningSettings
          /\ (config_flags.exists /\ ~config_flags.valid) => capture_flags' = capture_flags
          /\ (config_flags.exists /\ config_flags.valid) =>
                 capture_flags' = [move |-> config_flags.move, click |-> config_flags.click,
                                   scroll |-> config_flags.scroll]
          /\ ~config_flags.exists => capture_flags' = DefaultFlags
      ]_vars

\* a reload has taken the flags of a config.json whose safe_text_only
\* differs from that of the running recorder, and a second reload has found
\* a file that does not parse
C38_Witness ==
    /\ reloadsSeen = 2
    /\ ~config_flags.valid
    /\ capture_flags = [move |-> TRUE, click |-> TRUE, scroll |-> TRUE]
    /\ safe_text_only = FALSE


(***************************************************************************)
(* Shutdown as a whole: the stop watcher, the interrupt handler, the main  *)
(* thread, the writer and the loops that run until shutdown is set         *)
(***************************************************************************)

\* the threads of run_recorder that loop while !shutdown, besides the stop
\* watcher: spawn_pause_watcher, spawn_scroll_flush,
\* spawn_config_reload_watcher, spawn_snapshot_loop, spawn_window_poll_loop,
\* spawn_window_rect_flush_loop, spawn_clipboard_loop
BackgroundLoops == {"pause", "scroll_flush", "reload", "snapshot", "window_poll",
                    "rect_flush", "clipboard"}

\* while !shutdown.load(SeqCst) { .. }: one more of the loops finds shutdown
\* set and its thread returns (the loops have the same form and share
\* nothing but the flag, so they are counted)
LoopExit ==
    /\ shutdown
    /\ exited < Cardinality(BackgroundLoops)
    /\ exited' = exited + 1
    /\ UNCHANGED <<watchFrame, reloadFile, reloadRequests, reloadsSeen, config_flags,
                   capture_flags>>

\* run_recorder: the joins of all threads, then the lock is removed
MainJoinAll == exited = Cardinality(BackgroundLoops) /\ MainJoin

\* the steps of the stop watcher, of the main thread and of the writer
StopWatcherStep == StopWatcherPoll \/ StopWatcherFlush \/ StopWatcherSignal
MainStep == MainGetMessage \/ MainFlush \/ MainSessionStop \/ MainJoinAll
WriterStep == WriterRecv \/ WriterTimeout \/ WriterCheck \/ WriterReturn

\* The recorder is running, the text buffer is empty.
ShutdownInit == StopInit /\ now = 0 /\ text = <<>>

\* The commands come while the message loop runs; there is one pause command
\* at most.
ShutdownNext ==
    \/ mainPc = "loop" /\ StopCommand
    \/ mainPc = "loop" /\ CtrlC
    \/ mainPc = "loop" /\ pauseCommands = 0 /\ PauseCommand
    \/ PauseWatcherPoll
    \/ StopWatcherStep
    \/ MainStep
    \/ WriterStep
    \/ LoopExit

\* Every thread is scheduled again and again: the watcher and the loops
\* sleep for a bounded time and look at the flag, GetMessageW returns once
\* WM_QUIT is posted, recv_timeout returns after 250 ms at the latest.
SpecShutdown ==
    /\ ShutdownInit
    /\ [][ShutdownNext]_vars
    /\ WF_vars(StopWatcherStep)
    /\ WF_vars(MainStep)
    /\ WF_vars(WriterStep)
    /\ WF_vars(LoopExit)

\* the stop signal has been taken by the watcher, or an interrupt has come
StopObserved == watcherPc \in {"stop_flush", "signal"} \/ interrupts > 0

\* the process has ended: the message loop was left, every thread has
\* returned, the lock file is removed
Terminated ==
    /\ mainPc = "exit"
    /\ watcherPc = "done"
    /\ writerPc = "done"
    /\ exited = Cardinality(BackgroundLoops)
    /\ shutdown /\ wmQuit
    /\ teardown.lock_removals = 1

\* C30: once a stop signal or an interrupt is observed, paused or not, the
\* recorder terminates: the message loop is woken and left, the stop watcher,
\* the background loops and the writer return, and the lock file is removed.
\* No thread returns before shutdown is set, the stop watcher excepted, which
\* sets it itself.
C30_StopLeadsToTermination ==
    /\ StopObserved ~> Terminated
    /\ [](exited > 0 \/ writerPc = "done" => shutdown)

\* a recorder stopped by the stop signal while paused has terminated
C30_Witness ==
    /\ Terminated
    /\ paused
    /\ stopsIssued = 1 /\ interrupts = 0

\* C37: once the recorder has exited, neither stop.signal nor pause.signal
\* is left behind.
C37_NoSignalOutlivesSession ==
    mainPc = "exit" => ~stopFile /\ ~pauseFile

(***************************************************************************)
(* The text buffer under the interleaving of its threads                   *)
(*                                                                         *)
(* handle_text_key and the flushes take the buffer's lock for one read or  *)
(* one update at a time; a step below is one locked section or one send.   *)
(* The keyboard hook and the session_end flush run on the main thread, the *)
(* idle and the stop flush on the stop watcher, the pause flush on the     *)
(* pause watcher.  A character of the buffer carries the number of its key.*)
(***************************************************************************)
\* keys and commands of a behaviour
MaxRaceInputs == 3
\* the keys pressed
RaceKeys == CharKeys \cup {VK_BACK, VK_RETURN}
\* the keys pressed and the commands given so far
RaceInputs == keyCount + pauseCommands + stopsIssued

\* what no step of a thread of the text buffer changes
raceRest == <<cfgVars, gateVars, lockVars, clipVars, winVars, pointerVars, dbVars, keyVars,
             watchVars, text_snapshot_on_idle, foreground, isPassword, uiaAvailable,
             fieldValue, plainSpan, typedKeys, lastKeyTime, idlePolled, now, capacity,
             pauseFile, scroll_buffer, pauseCommands, wheelTicks, tickLog, snapshots,
             pausedSends, writerPc, rxOpen, batch, stored, stopsIssued, interrupts,
             hookEvents, hookLog, flushFailed, writerLog, stopText, teardown, recvStart,
             batchSince>>

\* a take that copies the text and leaves it in the buffer
mem_take_copies(buffer_text) == [left |-> buffer_text, taken |-> buffer_text]

\* std::mem::take(&mut buffer.text): the text goes to the caller, the buffer
\* is left empty
mem_take(buffer_text) == [left |-> <<>>, taken |-> buffer_text]

\* the thread enters flush_text_buffer_with_window
BeginFlush(t, reason) == [flushing EXCEPT ![t] = [stage |-> "take", reason |-> reason]]

\* handle_text_key up to the staleness test of
\* flush_text_buffer_if_stale_with_window, reached from keyboard_hook_proc
\* when the recorder is not paused
TextKeyCheck(vk) ==
    /\ mainPc = "loop"
    /\ hook.pc = "idle"
    /\ flushing["hook"] = NoFlush
    /\ ~paused
    /\ RaceInputs < MaxRaceInputs
    /\ keyCount' = keyCount + 1
    /\ hook' = [pc |-> "key", vk |-> vk, now_ms |-> now]
    /\ flushing' = IF IsStale([text |-> text, ts |-> last_ts_ms])
                   THEN BeginFlush("hook", "timeout")
                   ELSE flushing
    /\ UNCHANGED <<raceRest, text, last_ts_ms, chan, queued, paused, last_paused, stopFile,
                   shutdown, wmQuit, watcherPc, mainPc, pauseNote, typed, popped>>

\* handle_text_key after the staleness flush: Backspace, Enter, or the push
\* of the character with the test of max_text_len
TextKeyApply ==
    /\ hook.pc = "key"
    /\ flushing["hook"] = NoFlush
    /\ hook' = HookIdle
    /\ IF hook.vk = VK_BACK
       THEN /\ IF text # <<>>
               THEN /\ text' = SubSeq(text, 1, Len(text) - 1)
                    /\ last_ts_ms' = hook.now_ms
                    /\ popped' = popped \cup {text[Len(text)].n}
               ELSE UNCHANGED <<text, last_ts_ms, popped>>
            /\ UNCHANGED <<flushing, typed>>
       ELSE IF hook.vk = VK_RETURN
       THEN /\ flushing' = BeginFlush("hook", "enter")
            /\ UNCHANGED <<text, last_ts_ms, typed, popped>>
       ELSE /\ text' = Append(text, [ch |-> hook.vk, denied |-> FALSE, n |-> keyCount])
            /\ last_ts_ms' = hook.now_ms
            /\ typed' = typed \cup {keyCount}
            /\ flushing' = IF StringLen(text') >= MaxTextLen
                           THEN BeginFlush("hook", "max_len")
                           ELSE flushing
            /\ UNCHANGED popped
    /\ UNCHANGED <<raceRest, keyCount, chan, queued, paused, last_paused, stopFile, shutdown,
                   wmQuit, watcherPc, mainPc, pauseNote>>

\* flush_text_buffer_with_window, the locked section: return when the
\* buffer is empty, otherwise stamp it and take its text
FlushTake(t) ==
    /\ flushing[t].stage = "take"
    /\ IF text = <<>>
       THEN /\ flushing' = [flushing EXCEPT ![t] = NoFlush]
            /\ UNCHANGED <<text, last_ts_ms>>
       ELSE /\ text' = mem_take(text).left
            /\ last_ts_ms' = now
            /\ flushing' = [flushing EXCEPT ![t] = [stage |-> "send",
                                                    reason |-> flushing[t].reason,
                                                    text |-> mem_take(text).taken]]
    /\ UNCHANGED <<raceRest, keyCount, chan, queued, paused, last_paused, stopFile, shutdown,
                   wmQuit, watcherPc, mainPc, hook, pauseNote, typed, popped>>

\* flush_text_buffer_with_window after the lock is released: final_text and
\* send_text_event
FlushSend(t) ==
    /\ flushing[t].stage = "send"
    /\ LET u == UiaNow
           final_text ==
               IF /\ text_snapshot_on_idle
                  /\ flushing[t].reason \in {"idle_timeout", "timeout"}
                  /\ should_capture_text(allowlist_processes, blocklist_processes,
                                         safe_text_only, ProcessOf(foreground), u)
               THEN snapshot_text_from_uia(u, fieldValue)
               ELSE None
       IN  chan' = try_send(chan, TextEvent(foreground, flushing[t].text,
                                            flushing[t].reason, final_text))
    /\ queued' = queued \o Accepted(chan, chan')
    /\ flushing' = [flushing EXCEPT ![t] = NoFlush]
    /\ UNCHANGED <<raceRest, keyCount, text, last_ts_ms, paused, last_paused, stopFile,
                   shutdown, wmQuit, watcherPc, mainPc, hook, pauseNote, typed, popped>>

\* spawn_stop_watcher, a pass that finds no stop.signal and the recorder not
\* paused: the staleness test of flush_text_buffer_if_stale
IdleCheck ==
    /\ watcherPc = "loop"
    /\ flushing["stop_watcher"] = NoFlush
    /\ ~shutdown
    /\ ~stopFile
    /\ ~paused
    /\ IsStale([text |-> text, ts |-> last_ts_ms])
    /\ flushing' = BeginFlush("stop_watcher", "idle_timeout")
    /\ UNCHANGED <<raceRest, keyCount, text, last_ts_ms, chan, queued, paused, last_paused,
                   stopFile, shutdown, wmQuit, watcherPc, mainPc, hook, pauseNote, typed,
                   popped>>

\* spawn_stop_watcher, a pass that finds stop.signal: the file is removed
\* and the stop flush begins
StopSeen ==
    /\ watcherPc = "loop"
    /\ flushing["stop_watcher"] = NoFlush
    /\ ~shutdown
    /\ stopFile
    /\ stopFile' = remove_file(stopFile)
    /\ watcherPc' = "signal"
    /\ flushing' = BeginFlush("stop_watcher", "stop_signal")
    /\ UNCHANGED <<raceRest, keyCount, text, last_ts_ms, chan, queued, paused, last_paused,
                   shutdown, wmQuit, mainPc, hook, pauseNote, typed, popped>>

\* spawn_stop_watcher: signal_shutdown once the stop flush has returned
StopSignalled ==
    /\ flushing["stop_watcher"] = NoFlush
    /\ StopWatcherSignal

\* run_recorder: the message loop ends between two messages
RaceGetMessage ==
    /\ hook.pc = "idle"
    /\ flushing["hook"] = NoFlush
    /\ MainGetMessage

\* run_recorder: flush_text_buffer(&state, "session_end")
SessionEndFlush ==
    /\ mainPc = "session_end"
    /\ mainPc' = "session_stop"
    /\ flushing' = BeginFlush("hook", "session_end")
    /\ UNCHANGED <<raceRest, keyCount, text, last_ts_ms, chan, queued, paused, last_paused,
                   stopFile, shutdown, wmQuit, watcherPc, hook, pauseNote, typed, popped>>

\* spawn_pause_watcher, a pass that finds pause.signal changed: paused is
\* stored, then the pause flush begins or session_resume is sent
PauseSeen ==
    /\ ~shutdown
    /\ flushing["pause_watcher"] = NoFlush
    /\ ~pauseNote
    /\ pauseFile # last_paused
    /\ paused' = pauseFile
    /\ last_paused' = pauseFile
    /\ IF pauseFile
       THEN /\ flushing' = BeginFlush("pause_watcher", "pause")
            /\ pauseNote' = TRUE
            /\ UNCHANGED <<chan, queued>>
       ELSE /\ chan' = try_send(chan, SessionEvent("session_resume"))
            /\ queued' = queued \o Accepted(chan, chan')
            /\ UNCHANGED <<flushing, pauseNote>>
    /\ UNCHANGED <<raceRest, keyCount, text, last_ts_ms, stopFile, shutdown, wmQuit,
                   watcherPc, mainPc, hook, typed, popped>>

\* spawn_pause_watcher: session_pause once the pause flush has returned
PauseNoted ==
    /\ pauseNote
    /\ flushing["pause_watcher"] = NoFlush
    /\ pauseNote' = FALSE
    /\ chan' = try_send(chan, SessionEvent("session_pause"))
    /\ queued' = queued \o Accepted(chan, chan')
    /\ UNCHANGED <<raceRest, keyCount, text, last_ts_ms, paused, last_paused, stopFile,
                   shutdown, wmQuit, watcherPc, mainPc, hook, flushing, typed, popped>>

RaceInit == PauseInit

RaceNext ==
    \/ \E vk \in RaceKeys : TextKeyCheck(vk)
    \/ TextKeyApply
    \/ \E t \in RaceThreads : FlushTake(t)
    \/ \E t \in RaceThreads : FlushSend(t)
    \/ IdleCheck
    \/ StopSeen
    \/ StopSignalled
    \/ RaceGetMessage
    \/ SessionEndFlush
    \/ PauseSeen
    \/ PauseNoted
    \/ RaceInputs < MaxRaceInputs /\ PauseCommand
    \/ RaceInputs < MaxRaceInputs /\ StopCommand
    \/ Tick /\ UNCHANGED outsideText

SpecRace == RaceInit /\ [][RaceNext]_vars

\* the text events the channel has accepted
QueuedTexts == SelectSeq(queued, IsText)

\* the key numbers of a text
KeyNumbers(t) == {t[i].n : i \in 1..Len(t)}

\* in how many places the character of key n is: the buffer, the texts
\* taken and not yet sent, the text events sent
Places(n) ==
    Cardinality({i \in 1..Len(text) : text[i].n = n})
    + Cardinality({t \in RaceThreads :
                     flushing[t].stage = "send" /\ n \in KeyNumbers(flushing[t].text)})
    + Cardinality({i \in 1..Len(QueuedTexts) : n \in KeyNumbers(QueuedTexts[i].text)})

\* every thread has left its flush and the main thread has made the
\* session_end flush
RaceQuiet ==
    /\ mainPc = "session_stop"
    /\ \A t \in RaceThreads : flushing[t] = NoFlush

\* C33: under every interleaving of the keyboard callback with the idle,
\* pause, stop and session_end flushes, a character pushed to the text buffer
\* and not popped by Backspace is in exactly one place: the buffer, a text
\* taken and about to be sent, or one text event of the channel, where it
\* occurs once; a popped character is in none; and when the threads have
\* finished every such character is in exactly one text event.
C33_EachCharacterInOneTextEvent ==
    /\ \A n \in typed \ popped : Places(n) = 1
    /\ \A n \in popped : Places(n) = 0
    /\ \A i \in 1..Len(QueuedTexts) :
          Cardinality(KeyNumbers(QueuedTexts[i].text)) = Len(QueuedTexts[i].text)
    /\ RaceQuiet =>
          \A n \in typed \ popped :
              Cardinality({i \in 1..Len(QueuedTexts) :
                             n \in KeyNumbers(QueuedTexts[i].text)}) = 1

\* the stop watcher has found the buffer stale and has not yet taken it, and
\* the buffer is stale no more: the keyboard callback has pushed the second
\* character in between
C33_Witness ==
    /\ flushing["stop_watcher"] = [stage |-> "take", reason |-> "idle_timeout"]
    /\ KeyNumbers(text) = {1, 2}
    /\ ~IsStale([text |-> text, ts |-> last_ts_ms])
    /\ hook = HookIdle

\* C34: text events enter the channel in typing order: of two text events
\* of the channel, the earlier one holds the characters typed earlier.
C34_TextEventsInTypingOrder ==
    \A i, j \in 1..Len(QueuedTexts) :
        i < j => \A a \in KeyNumbers(QueuedTexts[i].text), b \in KeyNumbers(QueuedTexts[j].text) :
                     a < b

(***************************************************************************)
(* The records of a session from session_start to session_stop             *)
(***************************************************************************)

\* run_recorder has built the state and spawned the writer; no record has
\* been sent, no producer thread is running, no hook is installed
SessionInit ==
    /\ allowlist_processes = <<>>
    /\ blocklist_processes = <<>>
    /\ safe_text_only = FALSE
    /\ capture_raw_keys = TRUE
    /\ GateIdle
    /\ TextIdle
    /\ shutdown = FALSE
    /\ stopFile = FALSE
    /\ wmQuit = FALSE
    /\ mainPc = "start"
    /\ watcherPc = "loop"
    /\ writerPc = "recv"
    /\ rxOpen = TRUE
    /\ batch = <<>>
    /\ stored = <<>>
    /\ stopsIssued = 0
    /\ interrupts = 0
    /\ hookEvents = 0
    /\ queued = <<>>
    /\ hookLog = <<>>
    /\ flushFailed = FALSE
    /\ writerLog = NoWriterLog
    /\ stopText = None
    /\ teardown = NoTeardown
    /\ recvStart = now
    /\ batchSince = None
    /\ OutsideCoreIdle

\* run_recorder: send_session_event("session_start"), then the watchers and
\* loops are spawned and the hooks installed
SessionStart ==
    /\ mainPc = "start"
    /\ mainPc' = "loop"
    /\ chan' = try_send(chan, SessionEvent("session_start"))
    /\ queued' = queued \o Accepted(chan, chan')
    /\ UNCHANGED <<stopFrame, text, last_ts_ms, shutdown, stopFile, wmQuit, watcherPc,
                   writerPc, rxOpen, batch, stored, stopsIssued, interrupts, hookEvents,
                   hookLog, flushFailed, writerLog, stopText>>

\* run_recorder: shutdown is stored and session_stop sent once the
\* session_end flush has returned
SessionStop ==
    /\ flushing["hook"] = NoFlush
    /\ MainSessionStop

\* the threads run and the commands find a recorder once session_start is
\* sent
Started == mainPc # "start"

SessionNext ==
    \/ SessionStart
    \/ \E vk \in RaceKeys : TextKeyCheck(vk)
    \/ TextKeyApply
    \/ \E t \in RaceThreads : FlushTake(t)
    \/ \E t \in RaceThreads : FlushSend(t)
    \/ Started /\ IdleCheck
    \/ Started /\ StopSeen
    \/ StopSignalled
    \/ RaceGetMessage
    \/ SessionEndFlush
    \/ Started /\ PauseSeen
    \/ PauseNoted
    \/ Started /\ RaceInputs < MaxRaceInputs /\ PauseCommand
    \/ Started /\ RaceInputs < MaxRaceInputs /\ StopCommand
    \/ Started /\ Tick /\ UNCHANGED outsideText
    \/ SessionStop

SpecSession == SessionInit /\ [][SessionNext]_vars

\* C36: the first record put into the channel is session_start, and
\* session_stop, once it is in, is the last: no record follows it.
C36_SessionBracketsTheStream ==
    /\ queued # <<>> => Head(queued).type = "session_start"
    /\ \A i \in 1..Len(queued) : IsSessionStop(queued[i]) => i = Len(queued)

(***************************************************************************)
(* The session row: the writer's insert_session and the recording bridge's *)
(* ensure_session_row on the same storage file                             *)
(***************************************************************************)

\* the session id in the lock file: the session of the run in progress
LockSession == IF writerPc = "open" THEN dbOpens + 1 ELSE dbOpens

\* the file has a sessions table
HasSessionsTable(d) == \E i \in 1..Len(d.objects) : d.objects[i].name = "sessions"

\* the file has a sessions row with this session_id
HasSession(d, id) == \E i \in 1..Len(d.sessions) : d.sessions[i] = id

\* insert_session: INSERT INTO sessions, session_id being UNIQUE
insert_session(d, id) ==
    IF HasSession(d, id) THEN [ok |-> FALSE, db |-> d]
    ELSE [ok |-> TRUE, db |-> [d EXCEPT !.sessions = Append(@, id)]]

\* ensure_session_row of timestone_obs_ws: INSERT OR IGNORE INTO sessions
ensure_session_row(d, id) ==
    IF ~HasSessionsTable(d) THEN [ok |-> FALSE, db |-> d]
    ELSE IF HasSession(d, id) THEN [ok |-> TRUE, db |-> d]
    ELSE [ok |-> TRUE, db |-> [d EXCEPT !.sessions = Append(@, id)]]

\* what the opening of the storage file leaves alone
bridgeFrame == <<cfgVars, gateVars, now, capacity, paused, textVars, keyHistory, lockVars,
                pauseVars, clipVars, winVars, pointerVars, keyVars, watchVars, raceVars,
                shutdown, stopFile, wmQuit, mainPc, watcherPc, batch, stored, stopsIssued,
                interrupts, hookEvents, queued, hookLog, flushFailed, writerLog, stopText,
                teardown, recvStart, batchSince>>

\* run_writer: Connection::open and init_db
WriterInitDb ==
    /\ writerPc = "open"
    /\ writerPc' = "insert"
    /\ dbOpens' = dbOpens + 1
    /\ db' = init_db(db)
    /\ UNCHANGED <<bridgeFrame, rxOpen, chan>>

\* run_writer: insert_session; the writer returns when it fails, and with
\* it the receiver is dropped
WriterInsertSession ==
    /\ writerPc = "insert"
    /\ LET r == insert_session(db, LockSession)
       IN  /\ db' = r.db
           /\ IF r.ok
              THEN /\ writerPc' = "recv"
                   /\ UNCHANGED <<rxOpen, chan>>
              ELSE /\ writerPc' = "done"
                   /\ rxOpen' = FALSE
                   /\ chan' = <<>>
    /\ UNCHANGED <<bridgeFrame, dbOpens>>

\* timestone_obs_ws main: the session id is read from the lock, then
\* open_db and ensure_session_row
BridgeEnsure ==
    /\ db' = ensure_session_row(db, LockSession).db
    /\ UNCHANGED <<bridgeFrame, dbOpens, writerPc, rxOpen, chan>>

\* run_recorder has written the lock and spawned the writer, which has not
\* yet opened the storage file; the file is new or that of earlier runs
BridgeInit ==
    /\ allowlist_processes = <<>>
    /\ blocklist_processes = <<>>
    /\ safe_text_only = FALSE
    /\ capture_raw_keys = FALSE
    /\ GateIdle
    /\ TextIdle
    /\ shutdown = FALSE
    /\ stopFile = FALSE
    /\ wmQuit = FALSE
    /\ mainPc = "loop"
    /\ watcherPc = "loop"
    /\ writerPc = "open"
    /\ rxOpen = TRUE
    /\ batch = <<>>
    /\ stored = <<>>
    /\ stopsIssued = 0
    /\ interrupts = 0
    /\ hookEvents = 0
    /\ queued = <<>>
    /\ hookLog = <<>>
    /\ flushFailed = FALSE
    /\ writerLog = NoWriterLog
    /\ stopText = None
    /\ teardown = NoTeardown
    /\ recvStart = now
    /\ batchSince = None
    /\ LockIdle
    /\ PauseIdle
    /\ ClipIdle
    /\ WinIdle
    /\ PointerIdle
    /\ KeyIdle
    /\ WatchIdle
    /\ RaceIdle
    /\ db \in {[objects |-> <<>>, sessions |-> <<>>, events |-> <<>>],
               [objects |-> SchemaObjects, sessions |-> <<>>, events |-> <<>>]}
    /\ dbOpens = 0

BridgeNext ==
    \/ WriterInitDb
    \/ WriterInsertSession
    \/ BridgeEnsure
    \/ MouseHookProc
    \/ WriterRecv
    \/ WriterTimeoutElapsed
    \/ WriterCheck
    \/ WriterTick

SpecBridge == BridgeInit /\ [][BridgeNext]_vars

\* C40: once the writer is past insert_session, whether the bridge has
\* inserted before it or not, the sessions table holds exactly one row of
\* the session and the writer is in its loop, persisting what it receives.
C40_SessionRowSafeAgainstBridge ==
    writerPc \notin {"open", "insert"} =>
        /\ Cardinality({i \in 1..Len(db.sessions) : db.sessions[i] = LockSession}) = 1
        /\ writerPc # "done"

=============================================================================
